---- MODULE Spec2Model ----
(***************************************************************************)
(* A model of the BTF decoder of rust-btf: the wire layer (src/file.rs)    *)
(* and the type stream (src/ty.rs).                                        *)
(*                                                                         *)
(* A byte is a number in 0..255, a buffer a sequence of bytes.  A u32 is   *)
(* kept at its width as a pair of 16-bit halves [hi, lo]: the value is     *)
(* hi * 2^16 + lo.  Reader positions are 0-based, as in untrusted::Reader. *)
(***************************************************************************)
EXTENDS Integers, Sequences, FiniteSets, TLC

VARIABLES
    input,            \* the byte buffer handed to parse
    overflow_checks,  \* the build: TRUE when integer overflow panics (debug)
    gen,              \* the header fields the buffer was built from
    pc,               \* "start", "iter", "done", "failed", "panic", "ub"
    file,             \* the result of file::parse
    it,               \* the Types iterator: is_le, types, i (reader position), strs
    items,            \* what next() has returned so far, in order
    rs,               \* read_str under study: its arguments and its result
    iw,               \* the info word under study and its decoded fields
    pa,               \* the FUNC_PROTO parameter under study, raw and decoded
    em                \* the binding emitter: its entries, namespace and output

vars == <<input, overflow_checks, gen, pc, file, it, items, rs, iw, pa, em>>

-----------------------------------------------------------------------------
(* Bounds of the model *)

\* most bytes of section body that follow a generated header
MaxBody == 6
\* most entries of a generated type section
MaxEntries == 2
\* most trailing bytes cut from a generated type section
MaxCut == 5
\* most next() calls followed on one iterator
MaxCalls == 4

-----------------------------------------------------------------------------
(* 32-bit words *)

W(h, l) == [hi |-> h, lo |-> l]

Half == 256 * 256

\* a < b on u32
Lt32(a, b) == a.hi < b.hi \/ (a.hi = b.hi /\ a.lo < b.lo)

\* a - b on u32, wrapping at 2^32
WrappingSub32(a, b) ==
    LET borrow == IF a.lo < b.lo THEN 1 ELSE 0
    IN W((a.hi - b.hi - borrow + 2 * Half) % Half, (a.lo - b.lo + Half) % Half)

\* bitwise and of two 16-bit numbers
RECURSIVE And16(_, _, _)
And16(a, b, n) ==
    IF n = 0 THEN 0
    ELSE (IF a % 2 = 1 /\ b % 2 = 1 THEN 1 ELSE 0) + 2 * And16(a \div 2, b \div 2, n - 1)

\* bitwise and of two u32
And32(a, b) == W(And16(a.hi, b.hi, 16), And16(a.lo, b.lo, 16))

RECURSIVE Pow2(_)
Pow2(n) == IF n = 0 THEN 1 ELSE 2 * Pow2(n - 1)

\* a >> n on u32, for 16 <= n < 32: the result fits 16 bits
Shr32High(a, n) == a.hi \div Pow2(n - 16)

-----------------------------------------------------------------------------
(* byteorder: LittleEndian / BigEndian *)

LittleEndian_read_u16(b) == b[1] + 256 * b[2]

LittleEndian_read_u32(b) == W(b[3] + 256 * b[4], b[1] + 256 * b[2])

BigEndian_read_u32(b) == W(256 * b[1] + b[2], 256 * b[3] + b[4])

O_read_u32(le, b) == IF le THEN LittleEndian_read_u32(b) ELSE BigEndian_read_u32(b)

-----------------------------------------------------------------------------
(* untrusted::Reader over a buffer `in`, at position i *)

\* read_bytes(n): the next n bytes, or EndOfInput with the position unchanged.
\* n is a usize that came from a u32, kept as halves.
read_bytes(in, i, n) ==
    IF n.hi = 0 /\ i + n.lo <= Len(in)
    THEN [ok |-> TRUE, i |-> i + n.lo, bytes |-> SubSeq(in, i + 1, i + n.lo)]
    ELSE [ok |-> FALSE, i |-> i, bytes |-> << >>]

\* fewer bytes left than an entry header taken for the end
at_end_short(in, i) == Len(in) - i < 12
at_end(in, i) == i = Len(in)

\* ReadBytesExt::read_ty with T = u32
read_u32(in, i, le) ==
    LET r == read_bytes(in, i, W(0, 4))
    IN IF r.ok THEN [ok |-> TRUE, i |-> r.i, val |-> O_read_u32(le, r.bytes)]
       ELSE [ok |-> FALSE, i |-> r.i, val |-> W(0, 0)]

\* n consecutive read_u32()? : stops at the first failure, keeping what the
\* successful reads consumed
RECURSIVE read_u32s(_, _, _, _)
read_u32s(in, i, le, n) ==
    IF n = 0 THEN [ok |-> TRUE, i |-> i, vals |-> << >>]
    ELSE LET r == read_u32(in, i, le)
         IN IF ~r.ok THEN [ok |-> FALSE, i |-> r.i, vals |-> << >>]
            ELSE LET rest == read_u32s(in, r.i, le, n - 1)
                 IN [ok |-> rest.ok, i |-> rest.i,
                     vals |-> IF rest.ok THEN <<r.val>> \o rest.vals ELSE << >>]

\* consecutive read_bytes(n)? calls: stops at the first failure; `done` counts the
\* reads that succeeded and `parts` holds what they returned
RECURSIVE read_seq(_, _, _)
read_seq(in, i, ns) ==
    IF ns = << >> THEN [ok |-> TRUE, i |-> i, parts |-> << >>, done |-> 0]
    ELSE LET r == read_bytes(in, i, Head(ns))
         IN IF ~r.ok THEN [ok |-> FALSE, i |-> r.i, parts |-> << >>, done |-> 0]
            ELSE LET rest == read_seq(in, r.i, Tail(ns))
                 IN [ok |-> rest.ok, i |-> rest.i, parts |-> <<r.bytes>> \o rest.parts,
                     done |-> 1 + rest.done]

-----------------------------------------------------------------------------
(* Errors *)

NoErr == [kind |-> "", tag |-> ""]
EndOfInput == [kind |-> "EndOfInput", tag |-> ""]
Malformed(t) == [kind |-> "Malformed", tag |-> t]
Expected(t) == [kind |-> "Expected", tag |-> t]
Utf8Error == [kind |-> "Utf8Error", tag |-> ""]

-----------------------------------------------------------------------------
(* file::Header *)

Header_MAGIC == 60319       \* 0xeb9f

Header_SIZE == 24           \* mem::size_of::<Header>()

NoHeader ==
    [magic |-> 0, version |-> 0, flags |-> 0, len |-> W(0, 0), type_off |-> W(0, 0),
     type_len |-> W(0, 0), str_off |-> W(0, 0), str_len |-> W(0, 0)]

Header_is_le(hdr) == hdr.magic = Header_MAGIC

HeaderFail == [ok |-> FALSE, i |-> 0, hdr |-> NoHeader]

\* the excess of a header longer than size_of::<Header>() is skipped
Header_skip(in, i, hdr) ==
    IF Lt32(W(0, Header_SIZE), hdr.len)
    THEN \* checked_sub gave Some(n) with n > 0
         LET s == read_bytes(in, i, WrappingSub32(hdr.len, W(0, Header_SIZE)))
         IN IF s.ok THEN [ok |-> TRUE, i |-> s.i, hdr |-> hdr] ELSE HeaderFail
    ELSE [ok |-> TRUE, i |-> i, hdr |-> hdr]

\* Header::read::<O>: the magic is always read little-endian, the five words in O
Header_read(in, i0, le) ==
    LET p == read_seq(in, i0, <<W(0, 2), W(0, 1), W(0, 1)>>)
        w == read_u32s(in, p.i, le, 5)
    IN IF ~(p.ok /\ w.ok) THEN HeaderFail
       ELSE Header_skip(in, w.i,
                [magic |-> LittleEndian_read_u16(p.parts[1]), version |-> p.parts[2][1],
                 flags |-> p.parts[3][1], len |-> w.vals[1], type_off |-> w.vals[2],
                 type_len |-> w.vals[3], str_off |-> w.vals[4], str_len |-> w.vals[5]])

-----------------------------------------------------------------------------
(* file::File and file::parse *)

FileErr(e) ==
    [tag |-> "Err", err |-> e, header |-> NoHeader, types |-> << >>, strs |-> << >>, i |-> 0]

FilePanic == [FileErr(NoErr) EXCEPT !.tag = "Panic"]

\* the gap taken from the start of the type section instead of its end
Gap_from_type_off(hdr, checks) ==
    [panic |-> checks /\ Lt32(hdr.str_off, hdr.type_off),
     n |-> WrappingSub32(hdr.str_off, hdr.type_off)]
\* the gap header.str_off - header.type_off - header.type_len, a u32 expression:
\* an overflow panics when the build checks overflow and wraps when it does not
Gap(hdr, checks) ==
    IF checks /\ (Lt32(hdr.str_off, hdr.type_off)
                  \/ Lt32(WrappingSub32(hdr.str_off, hdr.type_off), hdr.type_len))
    THEN [panic |-> TRUE, n |-> W(0, 0)]
    ELSE [panic |-> FALSE,
          n |-> WrappingSub32(WrappingSub32(hdr.str_off, hdr.type_off), hdr.type_len)]

\* a section that overruns the buffer taken as far as the buffer goes
File_carve_unchecked(in, checks, h) ==
    IF ~h.ok THEN FileErr(EndOfInput)
    ELSE LET r == read_seq(in, h.i, <<h.hdr.type_off, h.hdr.type_len>>)
         IN [tag |-> "Ok", err |-> NoErr, header |-> h.hdr,
             types |-> IF r.ok THEN r.parts[2] ELSE << >>, strs |-> << >>, i |-> Len(in)]
\* File::read after the header h: skip(type_off)?, read_bytes(type_len)?, the gap
\* (evaluated once the first two reads succeeded), skip(gap)?, read_bytes(str_len)?,
\* skip_to_end()
File_carve(in, checks, h) ==
    IF ~h.ok THEN FileErr(EndOfInput)
    ELSE LET g == Gap(h.hdr, checks)
             r == read_seq(in, h.i, <<h.hdr.type_off, h.hdr.type_len, g.n, h.hdr.str_len>>)
         IN IF r.done < 2 THEN FileErr(EndOfInput)
            ELSE IF g.panic THEN FilePanic
            ELSE IF ~r.ok THEN FileErr(EndOfInput)
            ELSE [tag |-> "Ok", err |-> NoErr, header |-> h.hdr, types |-> r.parts[2],
                  strs |-> r.parts[4], i |-> Len(in)]

\* File::read::<O>
File_read(in, le, checks) == File_carve(in, checks, Header_read(in, 0, le))

\* Input::read_all(incomplete_read, f)
read_all(in, incomplete_read, res) ==
    IF res.tag = "Ok" /\ ~at_end(in, res.i) THEN FileErr(incomplete_read) ELSE res

MagicLE(in) == Len(in) >= 2 /\ in[1] = 159 /\ in[2] = 235
MagicBE(in) == Len(in) >= 2 /\ in[1] = 235 /\ in[2] = 159

\* the two byte orders exchanged
parse_swapped(in, checks) ==
    IF MagicLE(in) THEN read_all(in, EndOfInput, File_read(in, FALSE, checks))
    ELSE IF MagicBE(in) THEN read_all(in, EndOfInput, File_read(in, TRUE, checks))
    ELSE FileErr(Malformed("invalid magic"))
\* file::parse
parse(in, checks) ==
    IF MagicLE(in) THEN read_all(in, EndOfInput, File_read(in, TRUE, checks))
    ELSE IF MagicBE(in) THEN read_all(in, EndOfInput, File_read(in, FALSE, checks))
    ELSE FileErr(Malformed("invalid magic"))

\* Types::parse: the iterator over an accepted file
NoTypes == [is_le |-> FALSE, types |-> << >>, i |-> 0, strs |-> << >>]

Types_parse(f) ==
    [is_le |-> Header_is_le(f.header), types |-> f.types, i |-> 0, strs |-> f.strs]

-----------------------------------------------------------------------------
(* file::read_str *)

None == << >>
Some(x) == <<x>>

Cont(b) == b \in 128..191

\* core::str::from_utf8(s).is_ok()
RECURSIVE Utf8Valid(_)
Utf8Valid(s) ==
    IF s = << >> THEN TRUE
    ELSE LET b == s[1]
             n == Len(s)
         IN IF b < 128 THEN Utf8Valid(Tail(s))
            ELSE IF b \in 194..223
                 THEN n >= 2 /\ Cont(s[2]) /\ Utf8Valid(SubSeq(s, 3, n))
            ELSE IF b \in 224..239
                 THEN /\ n >= 3
                      /\ s[2] \in (IF b = 224 THEN 160..191
                                   ELSE IF b = 237 THEN 128..159 ELSE 128..191)
                      /\ Cont(s[3])
                      /\ Utf8Valid(SubSeq(s, 4, n))
            ELSE IF b \in 240..244
                 THEN /\ n >= 4
                      /\ s[2] \in (IF b = 240 THEN 144..191
                                   ELSE IF b = 244 THEN 128..143 ELSE 128..191)
                      /\ Cont(s[3])
                      /\ Cont(s[4])
                      /\ Utf8Valid(SubSeq(s, 5, n))
            ELSE FALSE

\* slice.get(off as usize..): Some for off <= len, None beyond
slice_get_from(s, off) ==
    IF off.hi = 0 /\ off.lo <= Len(s) THEN Some(SubSeq(s, off.lo + 1, Len(s))) ELSE None

\* s.split(|&b| b == 0).next(): the bytes before the first NUL, or all of s
RECURSIVE split_first(_)
split_first(s) ==
    IF s = << >> \/ s[1] = 0 THEN << >> ELSE <<s[1]>> \o split_first(Tail(s))

StrOk(v) == [ok |-> TRUE, err |-> NoErr, val |-> v]
StrErr(e) == [ok |-> FALSE, err |-> e, val |-> None]

\* read_str(input, off) -> Result<Option<&str>, Error>
read_str(strs, off) ==
    IF off = W(0, 0) THEN StrOk(None)
    ELSE LET g == slice_get_from(strs, off)
         IN IF g = None THEN StrOk(None)
            ELSE LET seg == split_first(g[1])
                 IN IF Utf8Valid(seg) THEN StrOk(Some(seg)) ELSE StrErr(Utf8Error)

-----------------------------------------------------------------------------
(* file::Info and file::Kind *)

Info_VLEN_MASK == W(0, 65535)       \* 0x0000_ffff
Info_KIND_MASK == W(7936, 0)        \* 0x1f00_0000
Info_KIND_FLAG == W(32768, 0)       \* 0x8000_0000
Info_KIND_SHIFT == 24

Type_SIZE == 12                     \* mem::size_of::<Type>()

KindNames ==
    <<"Unknown", "Integer", "Pointer", "Array", "Struct", "Union", "Enum", "Forward",
      "Typedef", "Volatile", "Const", "Restrict", "Func", "FuncProto", "Variable",
      "DataSection", "Float", "DeclTag", "TypeTag", "Enum64">>

Kinds == {KindNames[n] : n \in 1..Len(KindNames)}

Info_vlen(info) == And32(info, Info_VLEN_MASK).lo

\* ((self.0 & KIND_MASK) >> KIND_SHIFT) as u8: the discriminant handed to transmute
Info_kind_bits_4(info) == Shr32High(And32(info, W(3840, 0)), Info_KIND_SHIFT)
Info_kind_bits(info) == Shr32High(And32(info, Info_KIND_MASK), Info_KIND_SHIFT)

\* mem::transmute::<u8, Kind>: a discriminant of the enum is that kind; any other
\* value is undefined behaviour, whose outcome is any kind or no kind at all
Info_kind(info) ==
    LET d == Info_kind_bits(info)
    IN IF d < Len(KindNames) THEN {KindNames[d + 1]} ELSE Kinds \cup {"Invalid"}

Info_kflag(info) == And32(info, Info_KIND_FLAG) # W(0, 0)

\* Info::type_size with an ENUM64 variant taken to be as long as an ENUM variant
Info_type_size_enum64_short(info, kind) ==
    Type_SIZE
    + CASE kind = "Integer" -> 4
        [] kind \in {"Enum", "Enum64"} -> 8 * Info_vlen(info)
        [] kind = "Array" -> 12
        [] kind \in {"Struct", "Union"} -> 12 * Info_vlen(info)
        [] kind = "FuncProto" -> 8 * Info_vlen(info)
        [] kind = "Variable" -> 4
        [] kind = "DataSection" -> 12 * Info_vlen(info)
        [] kind = "DeclTag" -> 4
        [] OTHER -> 0

\* Info::type_size, for the kind the transmute produced
Info_type_size(info, kind) ==
    Type_SIZE
    + CASE kind = "Integer" -> 4
        [] kind = "Enum" -> 8 * Info_vlen(info)
        [] kind = "Enum64" -> 12 * Info_vlen(info)
        [] kind = "Array" -> 12
        [] kind \in {"Struct", "Union"} -> 12 * Info_vlen(info)
        [] kind = "FuncProto" -> 8 * Info_vlen(info)
        [] kind = "Variable" -> 4
        [] kind = "DataSection" -> 12 * Info_vlen(info)
        [] kind = "DeclTag" -> 4
        [] OTHER -> 0

\* mem::transmute::<u32, Linkage>: undefined behaviour outside 0..2
LinkageNames == <<"Static", "Global", "Extern">>

Linkage_from(v) ==
    IF v.hi = 0 /\ v.lo < Len(LinkageNames) THEN {LinkageNames[v.lo + 1]}
    ELSE {LinkageNames[n] : n \in 1..Len(LinkageNames)} \cup {"Invalid"}

-----------------------------------------------------------------------------
(* ty::read_type *)

U64(h, l) == [hi |-> h, lo |-> l]      \* a u64 as two u32

\* file::Int
Int_offset(w) == And16(w.hi, 255, 16)                    \* (w & 0x00ff0000) >> 16
Int_bits(w) == And16(w.lo, 255, 16)                      \* w & 0x000000ff
Int_encoding(w) == And16(Shr32High(And32(w, W(3840, 0)), 24), 7, 16)

\* file::Member
Member_bitfield_size(offset) == Shr32High(offset, 24)
\* bit_offset without the mask
Member_bit_offset_unmasked(offset) == offset
Member_bit_offset(offset) == And32(offset, W(255, 65535))     \* & 0x00ff_ffff

\* (0..n).map(|_| X::read::<O>(r).and_then(..read_str(name_off)..)).collect():
\* elements of `words` u32 each, the first word a name offset when `named`;
\* the first failure ends the reading and leaves the reader where it got to
RECURSIVE read_elems(_, _, _, _, _, _, _)
read_elems(in, i, le, strs, n, words, named) ==
    IF n = 0 THEN [ok |-> TRUE, err |-> NoErr, i |-> i, elems |-> << >>]
    ELSE LET w == read_u32s(in, i, le, words)
         IN IF ~w.ok THEN [ok |-> FALSE, err |-> EndOfInput, i |-> w.i, elems |-> << >>]
            ELSE LET nm == IF named THEN read_str(strs, w.vals[1]) ELSE StrOk(None)
                 IN IF ~nm.ok
                    THEN [ok |-> FALSE, err |-> nm.err, i |-> w.i, elems |-> << >>]
                    ELSE LET rest == read_elems(in, w.i, le, strs, n - 1, words, named)
                         IN [ok |-> rest.ok, err |-> rest.err, i |-> rest.i,
                             elems |-> IF rest.ok
                                       THEN <<[w |-> w.vals, name |-> nm.val]>> \o rest.elems
                                       ELSE << >>]

ToMember(e, kflag) ==
    IF kflag
    THEN [name |-> e.name, type_id |-> e.w[2], bits_offset |-> Member_bit_offset(e.w[3]),
          bitfield_size |-> Member_bitfield_size(e.w[3])]
    ELSE [name |-> e.name, type_id |-> e.w[2], bits_offset |-> e.w[3], bitfield_size |-> 0]

\* v.val as i32 as u64: the value word sign-extended
ToEnum_sign_extended(e) ==
    [name |-> e.name,
     val |-> U64(IF e.w[2].hi >= 32768 THEN W(65535, 65535) ELSE W(0, 0), e.w[2])]
ToEnum(e) == [name |-> e.name, val |-> U64(W(0, 0), e.w[2])]

ToEnum64(e) == [name |-> e.name, val |-> U64(e.w[3], e.w[2])]

ToParam(e) == [name |-> e.name, type_id |-> e.w[2]]

ToVarSectInfo(e) == [type_id |-> e.w[1], offset |-> e.w[2], size |-> e.w[3]]

Map(f(_), s) == [n \in 1..Len(s) |-> f(s[n])]

\* what one read_type call comes to: an entry, an error, or (ub) no defined result
Yield(t, i, k) == [ok |-> TRUE, ub |-> FALSE, err |-> NoErr, i |-> i, ty |-> t, kind |-> k]
Fail(e, i, k) ==
    [ok |-> FALSE, ub |-> FALSE, err |-> e, i |-> i, ty |-> [variant |-> "None"], kind |-> k]
Undefined(i, k) == [Fail(NoErr, i, k) EXCEPT !.ub = TRUE]

\* the entry whether or not it has a name
Named_optional(name, tag, t, i, k) == Yield(t, i, k)

\* name.ok_or(Expected(tag))? and then the entry
Named(name, tag, t, i, k) == IF name = None THEN Fail(Expected(tag), i, k) ELSE Yield(t, i, k)

\* the match of read_type on kind k, header words ty = <<name_off, info, size_or_type>>
\* already read up to position i, name already resolved
read_type_match(in, i, strs, le, ty, name, k) ==
    LET info == ty[2]
        sot == ty[3]
        vlen == Info_vlen(info)
        kflag == Info_kflag(info)
    IN CASE k = "Unknown" -> {Yield([variant |-> "Void"], i, k)}
         [] k = "Integer" ->
              LET p == read_u32(in, i, le)
              IN IF ~p.ok THEN {Fail(EndOfInput, p.i, k)}
                 ELSE {Named(name, "int name",
                             [variant |-> "Int", name |-> name, size |-> sot,
                              bits_offset |-> Int_offset(p.val), nr_bits |-> Int_bits(p.val),
                              encoding |-> Int_encoding(p.val)], p.i, k)}
         [] k = "Pointer" -> {Yield([variant |-> "Ptr", type_id |-> sot], i, k)}
         [] k = "Array" ->
              LET p == read_u32s(in, i, le, 3)
              IN IF ~p.ok THEN {Fail(EndOfInput, p.i, k)}
                 ELSE {Yield([variant |-> "Array", type_id |-> p.vals[1],
                              index_type_id |-> p.vals[2], nr_elems |-> p.vals[3]], p.i, k)}
         [] k \in {"Struct", "Union"} ->
              LET m == read_elems(in, i, le, strs, vlen, 3, TRUE)
                  conv(e) == ToMember(e, kflag)
              IN IF ~m.ok THEN {Fail(m.err, m.i, k)}
                 ELSE {Yield([variant |-> k, name |-> name, size |-> sot,
                              members |-> Map(conv, m.elems)], m.i, k)}
         [] k = "Enum" ->
              LET v == read_elems(in, i, le, strs, vlen, 2, TRUE)
              IN IF ~v.ok THEN {Fail(v.err, v.i, k)}
                 ELSE {Yield([variant |-> "Enum", name |-> name, size |-> sot,
                              values |-> Map(ToEnum, v.elems)], v.i, k)}
         [] k = "Enum64" ->
              LET v == read_elems(in, i, le, strs, vlen, 3, TRUE)
              IN IF ~v.ok THEN {Fail(v.err, v.i, k)}
                 ELSE {Yield([variant |-> "Enum", name |-> name, size |-> sot,
                              values |-> Map(ToEnum64, v.elems)], v.i, k)}
         [] k = "Forward" ->
              {Named(name, "forward name",
                     [variant |-> "Fwd", name |-> name,
                      fwd_kind |-> IF kflag THEN "Union" ELSE "Struct"], i, k)}
         [] k = "Typedef" ->
              {Named(name, "typedef name",
                     [variant |-> "Typedef", name |-> name, type_id |-> sot], i, k)}
         [] k \in {"Volatile", "Const", "Restrict"} ->
              {Yield([variant |-> k, type_id |-> sot], i, k)}
         [] k = "Func" ->
              \* the name is checked before the linkage is converted
              IF name = None THEN {Fail(Expected("func name"), i, k)}
              ELSE {Yield([variant |-> "Func", name |-> name, type_id |-> sot,
                           linkage |-> l], i, k) : l \in Linkage_from(W(0, vlen))}
         [] k = "FuncProto" ->
              LET p == read_elems(in, i, le, strs, vlen, 2, TRUE)
              IN IF ~p.ok THEN {Fail(p.err, p.i, k)}
                 ELSE {Yield([variant |-> "FuncProto", ret_type_id |-> sot,
                              params |-> Map(ToParam, p.elems)], p.i, k)}
         [] k = "Variable" ->
              IF name = None THEN {Fail(Expected("var name"), i, k)}
              ELSE LET p == read_u32(in, i, le)
                   IN IF ~p.ok THEN {Fail(EndOfInput, p.i, k)}
                      ELSE {Yield([variant |-> "Variable", name |-> name, type_id |-> sot,
                                   linkage |-> l], p.i, k) : l \in Linkage_from(p.val)}
         [] k = "DataSection" ->
              IF name = None THEN {Fail(Expected("datasec name"), i, k)}
              ELSE LET v == read_elems(in, i, le, strs, vlen, 3, FALSE)
                   IN IF ~v.ok THEN {Fail(v.err, v.i, k)}
                      ELSE {Yield([variant |-> "DataSec", name |-> name, size |-> sot,
                                   sections |-> Map(ToVarSectInfo, v.elems)], v.i, k)}
         [] k = "Float" ->
              {Named(name, "float name",
                     [variant |-> "Float", name |-> name, size |-> sot], i, k)}
         [] k = "DeclTag" ->
              IF name = None THEN {Fail(Expected("decl_tag name"), i, k)}
              ELSE LET p == read_u32(in, i, le)
                   IN IF ~p.ok THEN {Fail(EndOfInput, p.i, k)}
                      ELSE {Yield([variant |-> "DeclTag", name |-> name, type_id |-> sot,
                                   component_idx |-> p.val], p.i, k)}
         [] k = "TypeTag" ->
              {Named(name, "type_tag name",
                     [variant |-> "TypeTag", name |-> name, type_id |-> sot], i, k)}
         [] OTHER -> {Undefined(i, k)}     \* a Kind that is no variant: no arm is defined

\* read_type::<O>(r, strs): the set of results the call can come to
read_type(in, i, strs, le) ==
    LET h == read_u32s(in, i, le, 3)
    IN IF ~h.ok THEN {Fail(EndOfInput, h.i, "")}
       ELSE LET name == read_str(strs, h.vals[1])
            IN IF ~name.ok THEN {Fail(name.err, h.i, "")}
               ELSE UNION {read_type_match(in, h.i, strs, le, h.vals, name.val, k) :
                             k \in Info_kind(h.vals[2])}

-----------------------------------------------------------------------------
(* The inputs the model draws *)

EncU32(le, w) ==
    IF le THEN <<w.lo % 256, w.lo \div 256, w.hi % 256, w.hi \div 256>>
    ELSE <<w.hi \div 256, w.hi % 256, w.lo \div 256, w.lo % 256>>

RECURSIVE EncWords(_, _)
EncWords(le, ws) == IF ws = << >> THEN << >> ELSE EncU32(le, Head(ws)) \o EncWords(le, Tail(ws))

RECURSIVE Flatten(_)
Flatten(ss) == IF ss = << >> THEN << >> ELSE Head(ss) \o Flatten(Tail(ss))

\* the words of a header are written in the byte order its magic announces
GenLE(g) == g.magic # <<235, 159>>

EncHeader(g) ==
    g.magic \o <<1, 0>>
    \o EncWords(GenLE(g), <<g.len, g.type_off, g.type_len, g.str_off, g.str_len>>)

\* n bytes that differ from one another
Fill(n) == [j \in 1..n |-> 16 + j]

Magics == {<<159, 235>>, <<235, 159>>, <<159, 159>>, <<0, 235>>}

HeaderGens ==
    [magic : Magics,
     len : {W(0, 8), W(0, 24), W(0, 26)},
     type_off : {W(0, 0), W(0, 1), W(1, 0)},
     type_len : {W(0, 0), W(0, 2)},
     str_off : {W(0, n) : n \in 0..3},
     str_len : {W(0, 0), W(0, 1)},
     fill : 0..MaxBody,
     keep : {Header_SIZE}]

\* buffers that end inside the fixed header
ShortGens ==
    [magic : Magics, len : {W(0, 24)}, type_off : {W(0, 0)}, type_len : {W(0, 0)},
     str_off : {W(0, 0)}, str_len : {W(0, 0)}, fill : {0}, keep : 0..(Header_SIZE - 1)]

GenInput(g) == SubSeq(EncHeader(g), 1, g.keep) \o Fill(g.fill)

\* the string section of the generated type streams:
\* offset 1 is "a", 2 is "", 3 is not UTF-8, 5 is the section's length
IterStrs == <<0, 97, 0, 255, 0>>

\* entries as words: the header <<name_off, info, size_or_type>> and the payload
EntryTemplates ==
    { <<W(0, 0), W(0, 0), W(0, 0)>>,                                \* kind 0
      <<W(0, 1), W(256, 0), W(0, 4), W(256, 32)>>,                  \* INT "a"
      <<W(0, 0), W(256, 0), W(0, 4), W(256, 32)>>,                  \* INT without a name
      <<W(0, 0), W(512, 0), W(0, 1)>>,                              \* PTR
      <<W(0, 3), W(512, 0), W(0, 1)>>,                              \* PTR, name not UTF-8
      <<W(0, 1), W(33792, 1), W(0, 4), W(0, 1), W(0, 1), W(768, 5)>>,  \* STRUCT, kind_flag
      <<W(0, 1), W(3072, 1), W(0, 1)>>,                             \* FUNC, linkage 1
      <<W(0, 1), W(4096, 0), W(0, 4)>>,                             \* FLOAT (kind 16)
      <<W(0, 0), W(5120, 0), W(0, 0)>> }                            \* kind 20

RECURSIVE SeqsUpTo(_, _)
SeqsUpTo(S, n) ==
    IF n = 0 THEN {<< >>}
    ELSE LET shorter == SeqsUpTo(S, n - 1)
         IN shorter \cup {Append(q, x) : q \in shorter, x \in S}

\* type sections: up to MaxEntries entries, with up to MaxCut trailing bytes cut off
Sections(le) ==
    { SubSeq(b, 1, Len(b) - c) :
        b \in {Flatten([n \in 1..Len(q) |-> EncWords(le, q[n])]) :
                 q \in SeqsUpTo(EntryTemplates, MaxEntries)},
        c \in 0..MaxCut }

SectionGen(magic, sec) ==
    [magic |-> magic, len |-> W(0, 24), type_off |-> W(0, 0), type_len |-> W(0, Len(sec)),
     str_off |-> W(0, Len(sec)), str_len |-> W(0, Len(IterStrs)), fill |-> 0,
     keep |-> Header_SIZE]

-----------------------------------------------------------------------------
(* The decoder: parse, then next() until the caller stops *)

NoFile == [FileErr(NoErr) EXCEPT !.tag = "None"]
NoRs == [strs |-> << >>, off |-> W(0, 0), done |-> FALSE, res |-> StrOk(None)]
NoDecoded == [vlen |-> 0, kind_bits |-> 0, kind |-> "Unknown", kflag |-> FALSE]
NoBits == [kf |-> 0, hi3 |-> 0, kind4 |-> 0, un |-> 0, lo |-> 0]
NoPa == [raw |-> [name_off |-> W(0, 0), ty |-> W(0, 0)], done |-> FALSE]
NoEm == [done |-> FALSE]
NoIw ==
    [a |-> W(0, 0), b |-> W(0, 0), ga |-> NoBits, gb |-> NoBits, done |-> FALSE,
     da |-> NoDecoded, db |-> NoDecoded]

Start(in, g) ==
    /\ input = in
    /\ gen = g
    /\ overflow_checks \in BOOLEAN
    /\ pc = "start"
    /\ file = NoFile
    /\ it = NoTypes
    /\ items = << >>
    /\ rs = NoRs
    /\ iw = NoIw
    /\ pa = NoPa
    /\ em = NoEm

InitHeaders == \E g \in HeaderGens \cup ShortGens : Start(GenInput(g), g)

InitSections ==
    \E magic \in {<<159, 235>>, <<235, 159>>} :
        \E sec \in Sections(magic = <<159, 235>>) :
            LET g == SectionGen(magic, sec)
            IN Start(EncHeader(g) \o sec \o IterStrs, g)

Init == InitHeaders \/ InitSections

\* lib::parse = Types::parse over file::parse
Parse ==
    /\ pc = "start"
    /\ LET f == parse(input, overflow_checks)
       IN /\ file' = f
          /\ pc' = CASE f.tag = "Ok" -> "iter" [] f.tag = "Panic" -> "panic" [] OTHER -> "failed"
          /\ it' = IF f.tag = "Ok" THEN Types_parse(f) ELSE NoTypes
    /\ UNCHANGED <<input, overflow_checks, gen, items, rs, iw, pa, em>>

\* Types::next at the end of the section: None
Types_next_None ==
    /\ pc = "iter"
    /\ at_end(it.types, it.i)
    /\ pc' = "done"
    /\ UNCHANGED <<input, overflow_checks, gen, file, it, items, rs, iw, pa, em>>

\* Types::next before the end: Some(read_type(..))
Types_next_Some ==
    /\ pc = "iter"
    /\ ~at_end(it.types, it.i)
    /\ Len(items) < MaxCalls
    /\ \E r \in read_type(it.types, it.i, it.strs, it.is_le) :
          LET hd == read_u32s(it.types, it.i, it.is_le, 3)
          IN /\ it' = [it EXCEPT !.i = r.i]
             /\ IF r.ub
                THEN pc' = "ub" /\ UNCHANGED items
                ELSE /\ pc' = pc
                     /\ items' = Append(items,
                            [ok |-> r.ok, err |-> r.err, ty |-> r.ty, kind |-> r.kind,
                             from |-> it.i, to |-> r.i, hdr_ok |-> hd.ok,
                             info |-> IF hd.ok THEN hd.vals[2] ELSE W(0, 0)])
    /\ UNCHANGED <<input, overflow_checks, gen, file, rs, iw, pa, em>>

Next == Parse \/ Types_next_None \/ Types_next_Some

Spec == Init /\ [][Next]_vars

-----------------------------------------------------------------------------
(* read_str on its own: a string section and an offset *)

\* longest string section drawn
MaxStr == 3

\* NUL, "a", a byte that is never UTF-8, and the two bytes of U+00E9
StrBytes == {0, 97, 255, 195, 169}

StrOffsets == {W(0, n) : n \in 0..(MaxStr + 2)} \cup {W(1, 0)}

Idle(at) ==
    /\ pa = NoPa
    /\ em = NoEm
    /\ input = << >>
    /\ gen = SectionGen(<<159, 235>>, << >>)
    /\ overflow_checks = FALSE
    /\ pc = at
    /\ file = NoFile
    /\ it = NoTypes
    /\ items = << >>

InitStr ==
    /\ Idle("str")
    /\ \E b \in SeqsUpTo(StrBytes, MaxStr), o \in StrOffsets :
          rs = [strs |-> b, off |-> o, done |-> FALSE, res |-> StrOk(None)]
    /\ iw = NoIw

ReadStr ==
    /\ pc = "str"
    /\ pc' = "str_done"
    /\ rs' = [rs EXCEPT !.done = TRUE, !.res = read_str(rs.strs, rs.off)]
    /\ UNCHANGED <<input, overflow_checks, gen, file, it, items, iw, pa, em>>

SpecStr == InitStr /\ [][ReadStr]_vars

-----------------------------------------------------------------------------
(* Info::vlen / kind / kflag on their own: two info words a and b that agree on *)
(* bits 0-15, 24-27 and 31                                                     *)

InfoWord(g) == W(g.kf * 32768 + g.hi3 * 4096 + g.kind4 * 256 + g.un, g.lo)

InfoBits == [kf : {0, 1}, hi3 : {0, 1, 6}, kind4 : {0, 3, 4, 15}, un : {0, 255}, lo : {1, 65535}]

Info_decode(info, k) ==
    [vlen |-> Info_vlen(info), kind_bits |-> Info_kind_bits(info), kind |-> k,
     kflag |-> Info_kflag(info)]

InitInfo ==
    /\ Idle("info")
    /\ rs = NoRs
    /\ \E g \in InfoBits, h \in {0, 1, 6, 7}, u \in {0, 255} :
          LET g2 == [g EXCEPT !.hi3 = h, !.un = u]
          IN iw = [NoIw EXCEPT !.a = InfoWord(g), !.b = InfoWord(g2), !.ga = g, !.gb = g2]

DecodeInfo ==
    /\ pc = "info"
    /\ pc' = "info_done"
    /\ \E ka \in Info_kind(iw.a), kb \in Info_kind(iw.b) :
          iw' = [iw EXCEPT !.done = TRUE, !.da = Info_decode(iw.a, ka),
                           !.db = Info_decode(iw.b, kb)]
    /\ UNCHANGED <<input, overflow_checks, gen, file, it, items, rs, pa, em>>

SpecInfo == InitInfo /\ [][DecodeInfo]_vars

-----------------------------------------------------------------------------
(* read_type on its own: one entry of each declared kind, then a few more bytes *)

\* largest vlen drawn
MaxVlen == 2

\* payload words drawn: zero, one, a bitfield word (size 3, offset 5), all ones
PayloadWords == {W(0, 0), W(0, 1), W(768, 5), W(65535, 65535)}

\* second value words drawn (the high half of an ENUM64 value, a DATASEC size)
PayloadWords2 == {W(0, 2), W(32768, 0)}

EntryGens ==
    [kind : 0..(Len(KindNames) - 1), vlen : 0..MaxVlen, kf : {0, 1}, name : {0, 1},
     enm : {0, 1}, w1 : PayloadWords, w2 : PayloadWords2, cut : 0..MaxCut, le : BOOLEAN]

EntryInfo(g) == W(g.kf * 32768 + g.kind * 256, g.vlen)

\* the size_or_type word of the generated entries
EntrySizeOrType == W(0, 4)

\* the trailing payload of the entry, as words, laid out as the file:: structs are read
EntryPayload(g) ==
    LET k == KindNames[g.kind + 1]
        rep(e) == Flatten([n \in 1..g.vlen |-> e])
    IN CASE k = "Integer" -> <<g.w1>>
         [] k = "Array" -> <<W(0, 1), W(0, 1), g.w1>>
         [] k \in {"Struct", "Union"} -> rep(<<W(0, g.enm), W(0, 1), g.w1>>)
         [] k = "Enum" -> rep(<<W(0, g.enm), g.w1>>)
         [] k = "Enum64" -> rep(<<W(0, g.enm), g.w1, g.w2>>)
         [] k = "FuncProto" -> rep(<<W(0, g.enm), g.w1>>)
         [] k = "Variable" -> <<g.w1>>
         [] k = "DataSection" -> rep(<<W(0, 1), g.w1, g.w2>>)
         [] k = "DeclTag" -> <<g.w1>>
         [] OTHER -> << >>

\* the entry, one more word after it, and the last g.cut bytes of that cut off
EntryBytes(g) ==
    LET b == EncWords(g.le, <<W(0, g.name), EntryInfo(g), EntrySizeOrType>>
                              \o EntryPayload(g) \o <<W(4369, 4369)>>)
    IN SubSeq(b, 1, Len(b) - g.cut)

InitEntry ==
    \E g \in EntryGens :
        /\ input = EntryBytes(g)
        /\ gen = g
        /\ overflow_checks = FALSE
        /\ pc = "entry"
        /\ file = NoFile
        /\ it = [types |-> EntryBytes(g), strs |-> IterStrs, i |-> 0, is_le |-> g.le]
        /\ items = << >>
        /\ rs = NoRs
        /\ iw = NoIw
        /\ pa = NoPa
        /\ em = NoEm

\* one call of read_type::<O>(&mut types, &strs), as Types::next makes it
ReadType ==
    /\ pc = "entry"
    /\ \E r \in read_type(it.types, it.i, it.strs, it.is_le) :
          LET hd == read_u32s(it.types, it.i, it.is_le, 3)
          IN /\ it' = [it EXCEPT !.i = r.i]
             /\ pc' = IF r.ub THEN "ub" ELSE "entry_done"
             /\ items' = IF r.ub THEN items
                         ELSE Append(items,
                                [ok |-> r.ok, err |-> r.err, ty |-> r.ty, kind |-> r.kind,
                                 from |-> it.i, to |-> r.i, hdr_ok |-> hd.ok,
                                 info |-> IF hd.ok THEN hd.vals[2] ELSE W(0, 0)])
    /\ UNCHANGED <<input, overflow_checks, gen, file, rs, iw, pa, em>>

SpecEntry == InitEntry /\ [][ReadType]_vars

-----------------------------------------------------------------------------
(* A FUNC_PROTO parameter on its own: file::Param read from its 8 bytes, then *)
(* made a ty::Param as read_type makes it, and both is_variable_argument      *)

\* file::Param::is_variable_argument
file_Param_is_variable_argument(p) == p.name_off = W(0, 0) \/ p.ty = W(0, 0)

\* ty::Param::is_variable_argument
ty_Param_is_variable_argument(p) == p.name = None /\ p.type_id = W(0, 0)

\* name offsets into IterStrs: absent, "a", "", not UTF-8, the section's length, past it
ParamNameOffs == {0, 1, 2, 3, 5, 6}

ParamTypeIds == {W(0, 0), W(0, 1), W(0, 256), W(1, 0), W(65535, 65535)}

InitParam ==
    /\ input = << >>
    /\ gen = SectionGen(<<159, 235>>, << >>)
    /\ overflow_checks = FALSE
    /\ pc = "param"
    /\ file = NoFile
    /\ it = NoTypes
    /\ items = << >>
    /\ em = NoEm
    /\ rs = NoRs
    /\ iw = NoIw
    /\ \E n \in ParamNameOffs, t \in ParamTypeIds, le \in BOOLEAN :
          pa = [NoPa EXCEPT !.raw = [name_off |-> W(0, n), ty |-> t]]
               @@ [le |-> le, bytes |-> EncWords(le, <<W(0, n), t>>)]

\* file::Param::read::<O>(r).and_then(|p| Ok(Param { name: read_str(strs, p.name_off)?,
\* type_id: p.ty })), with is_variable_argument asked of both
DecodeParam ==
    /\ pc = "param"
    /\ pc' = "param_done"
    /\ LET r == read_u32s(pa.bytes, 0, pa.le, 2)
           p == [name_off |-> r.vals[1], ty |-> r.vals[2]]
           name == read_str(IterStrs, p.name_off)
           param == ToParam([w |-> r.vals, name |-> name.val])
       IN pa' = [raw |-> pa.raw, le |-> pa.le, bytes |-> pa.bytes, done |-> TRUE,
                 read |-> p, file_variadic |-> file_Param_is_variable_argument(p),
                 ok |-> name.ok, err |-> name.err, param |-> param,
                 ty_variadic |-> ty_Param_is_variable_argument(param)]
    /\ UNCHANGED <<input, overflow_checks, gen, file, it, items, rs, iw, em>>

SpecParam == InitParam /\ [][DecodeParam]_vars

-----------------------------------------------------------------------------
(* rust::Types::get_type on its own: a base of B entries (or none), L local *)
(* entries, a type id                                                       *)

\* longest base and local vectors drawn for get_type
MaxBase == 3
MaxLocal == 3

OutOfRange(t, n) == [kind |-> "OutOfRange", tag |-> t, n |-> n]

\* slice.get(idx as usize) on a vector of len entries: the index, or None
slice_get(len, idx) == IF idx.hi = 0 /\ idx.lo < len THEN Some(idx.lo) ELSE None

\* Types::get_type(type_id): Ok(&Type::VOID), Ok(&base[idx]), Ok(&types[idx]),
\* Err(OutOfRange), or a panic at `type_id - start_id` in a build with overflow checks
Types_get_type(base, types_len, type_id, checks) ==
    IF type_id = W(0, 0) THEN [tag |-> "Ok", of |-> "VOID", idx |-> 0]
    ELSE LET start_id == W(0, (IF base.some THEN base.len ELSE 0) + 1)
             in_base == Lt32(type_id, start_id)
         IN IF in_base /\ checks THEN [tag |-> "Panic"]
            ELSE LET got == slice_get(IF in_base THEN base.len ELSE types_len,
                                      WrappingSub32(type_id, start_id))
                 IN IF got = None
                    THEN [tag |-> "Err", err |-> OutOfRange("type_id", type_id)]
                    ELSE [tag |-> "Ok", of |-> IF in_base THEN "base" ELSE "types",
                          idx |-> got[1]]

Bases == {[some |-> FALSE, len |-> 0]} \cup {[some |-> TRUE, len |-> n] : n \in 0..MaxBase}

TypeIdsAsked == {W(0, n) : n \in 0..(MaxBase + MaxLocal + 2)} \cup {W(1, 0), W(65535, 65535)}

InitGetType ==
    /\ input = << >>
    /\ gen = SectionGen(<<159, 235>>, << >>)
    /\ overflow_checks \in BOOLEAN
    /\ pc = "get_type"
    /\ file = NoFile
    /\ it = NoTypes
    /\ items = << >>
    /\ rs = NoRs
    /\ iw = NoIw
    /\ pa = NoPa
    /\ \E b \in Bases, l \in 0..MaxLocal, id \in TypeIdsAsked :
          em = [done |-> FALSE, base |-> b, types_len |-> l, type_id |-> id,
                res |-> [tag |-> "None"]]

GetType ==
    /\ pc = "get_type"
    /\ pc' = "get_type_done"
    /\ em' = [em EXCEPT !.done = TRUE,
                        !.res = Types_get_type(em.base, em.types_len, em.type_id,
                                               overflow_checks)]
    /\ UNCHANGED <<input, overflow_checks, gen, file, it, items, rs, iw, pa>>

SpecGetType == InitGetType /\ [][GetType]_vars

-----------------------------------------------------------------------------
(* rust: identifiers as strings of ASCII codes, and the Namespace *)

\* s < t in the byte order of String
RECURSIVE StrLt(_, _)
StrLt(s, t) ==
    IF t = << >> THEN FALSE
    ELSE IF s = << >> THEN TRUE
    ELSE IF s[1] # t[1] THEN s[1] < t[1]
    ELSE StrLt(Tail(s), Tail(t))

\* the decimal digits of n, as format!("{}", n) writes them
RECURSIVE Decimal(_)
Decimal(n) == IF n < 10 THEN <<48 + n>> ELSE Decimal(n \div 10) \o <<48 + (n % 10)>>

Underscore == <<95>>

\* the reserved words among the names drawn: "fn"
Keywords == {<<102, 110>>}

\* EscapeKeyword::escape_keyword
escape_keyword(name) == IF name \in Keywords THEN Underscore \o name ELSE name

\* anon_type_name(ty, id) = format!("_anon_{}_{}", ty, id)
anon_type_name(ty, id) == <<95, 97, 110, 111, 110, 95>> \o ty \o Underscore \o Decimal(id)

StructWord == <<115, 116, 114, 117, 99, 116>>
UnionWord == <<117, 110, 105, 111, 110>>
EnumWord == <<101, 110, 117, 109>>
FieldWord == <<102, 105, 101, 108, 100>>

\* Vec::binary_search on names between lo and hi: Ok(index) or Err(insertion point)
RECURSIVE binary_search(_, _, _, _)
binary_search(names, x, lo, hi) ==
    IF lo >= hi THEN [found |-> FALSE, idx |-> lo]
    ELSE LET mid == lo + (hi - lo) \div 2
         IN IF names[mid + 1] = x THEN [found |-> TRUE, idx |-> mid]
            ELSE IF StrLt(names[mid + 1], x) THEN binary_search(names, x, mid + 1, hi)
            ELSE binary_search(names, x, lo, mid)

\* Vec::insert replaced by a push at the end
Vec_insert_at_end(v, idx, x) == Append(v, x)

\* Vec::insert(idx, x)
Vec_insert(v, idx, x) == SubSeq(v, 1, idx) \o <<x>> \o SubSeq(v, idx + 1, Len(v))

Namespace_default == [names |-> << >>, name_by_id |-> << >>]

\* Namespace::get_name(type_id): name_by_id.get(type_id - 1)
Namespace_get_name(ns, type_id) ==
    IF type_id >= 1 /\ type_id <= Len(ns.name_by_id) THEN Some(ns.name_by_id[type_id])
    ELSE None

\* Namespace::get_unique_name with the name always taken as proposed
Namespace_get_unique_name_as_proposed(ns, name, type_id) ==
    [panic |-> FALSE, name |-> name,
     ns |-> [names |-> ns.names, name_by_id |-> Append(ns.name_by_id, name)]]

\* Namespace::get_unique_name(name, type_id): the name returned and the namespace
\* after the call, or the panic of expect_err("name already exists")
Namespace_get_unique_name(ns, name, type_id) ==
    IF Namespace_get_name(ns, type_id) # None
    THEN [panic |-> FALSE, name |-> ns.name_by_id[type_id], ns |-> ns]
    ELSE LET first == binary_search(ns.names, name, 0, Len(ns.names))
             renamed == name \o Underscore \o Decimal(type_id)
             second == binary_search(ns.names, renamed, 0, Len(ns.names))
             s == IF first.found THEN renamed ELSE name
             idx == IF first.found THEN second.idx ELSE first.idx
         IN IF first.found /\ second.found
            THEN [panic |-> TRUE, name |-> << >>, ns |-> ns]
            ELSE [panic |-> FALSE, name |-> s,
                  ns |-> [names |-> Vec_insert(ns.names, idx, s),
                          name_by_id |-> Append(ns.name_by_id, s)]]

-----------------------------------------------------------------------------
(* rust: TypeFmt and FuncProto, the rendering of a type reference *)

\* the result of get_type as an entry: ts = [base, types, checks]
Types_resolve(ts, type_id) ==
    LET r == Types_get_type([some |-> ts.base.some, len |-> Len(ts.base.v)],
                            Len(ts.types), W(0, type_id), ts.checks)
    IN IF r.tag # "Ok" THEN [ok |-> FALSE, ty |-> [variant |-> "None"]]
       ELSE [ok |-> TRUE,
             ty |-> CASE r.of = "VOID" -> [variant |-> "Void"]
                      [] r.of = "base" -> ts.base.v[r.idx + 1]
                      [] OTHER -> ts.types[r.idx + 1]]

\* rendered tokens; panic marks a rendering that did not return
Tok(t) == [t |-> t, panic |-> FALSE]
Ident(name) == [t |-> "ident", name |-> name, panic |-> FALSE]
Wrap(t, inner) == [t |-> t, inner |-> inner, panic |-> inner.panic]
Panicked(msg) == [t |-> "panic", msg |-> msg, panic |-> TRUE]

\* format!("{}{}", "i" or "u", size * 8) and format!("f{}", size * 8)
IntIdent(signed, size) == (IF signed THEN <<105>> ELSE <<117>>) \o Decimal(size * 8)
FloatIdent(size) == <<102>> \o Decimal(size * 8)

\* a rendering out of the table prev of the renderings one reference deeper; a type
\* id outside the table is one get_type has no entry for
Render(prev, type_id) ==
    IF type_id \in DOMAIN prev THEN prev[type_id] ELSE Panicked("type")

\* FuncProto::to_tokens: (params) -> ret, its types rendered out of prev
FuncProto(prev, ret_type, params) ==
    LET ps == [n \in 1..Len(params) |->
                 LET p == params[n]
                 IN IF p.name = None /\ p.type_id = 0 THEN Tok("...")
                    ELSE IF p.name # None
                    THEN [Wrap("param", Render(prev, p.type_id)) EXCEPT !.t = "named_param"]
                         @@ [name |-> escape_keyword(p.name[1])]
                    ELSE Wrap("param", Render(prev, p.type_id))]
        ret == IF ret_type # 0 THEN Some(Render(prev, ret_type)) ELSE None
    IN [t |-> "proto", params |-> ps, ret |-> ret,
        panic |-> (\E n \in 1..Len(ps) : ps[n].panic) \/ (ret # None /\ ret[1].panic)]

\* the Ptr arm of TypeFmt::to_tokens, q the result of get_type for the pointee
TypeFmt_ptr(prev, pointee_id, q) ==
    IF ~q.ok THEN Panicked("pointee type")
    ELSE IF q.ty.variant = "Const" THEN Wrap("*const", Render(prev, q.ty.type_id))
    ELSE IF q.ty.variant = "FuncProto"
    THEN Wrap("Option<unsafe extern C fn>", FuncProto(prev, q.ty.ret_type_id, q.ty.params))
    ELSE Wrap("*mut", Render(prev, pointee_id))

\* the match of TypeFmt::to_tokens for type_id, ty the entry get_type has for it,
\* every nested TypeFmt and FuncProto rendered out of prev
TypeFmt_match(ts, ns, type_id, ty, prev) ==
    CASE ty.variant = "Void" -> Tok("c_void")
      [] ty.variant = "Int" ->
            IF ty.is_bool THEN Tok("bool")
            ELSE IF ty.bits_offset = 0 THEN Ident(IntIdent(ty.is_signed, ty.size))
            ELSE Ident(ty.name[1])
      [] ty.variant = "Float" -> Ident(FloatIdent(ty.size))
      [] ty.variant = "Ptr" -> TypeFmt_ptr(prev, ty.type_id, Types_resolve(ts, ty.type_id))
      [] ty.variant = "Array" ->
            Wrap("array", Render(prev, ty.type_id)) @@ [n |-> ty.nr_elems]
      [] ty.variant \in {"Struct", "Union", "Enum"} /\ ty.name # None ->
            LET recorded == Namespace_get_name(ns, type_id)
            IN Ident(escape_keyword(IF recorded # None THEN recorded[1] ELSE ty.name[1]))
      [] ty.variant = "Struct" /\ ty.name = None -> Ident(anon_type_name(StructWord, type_id))
      [] ty.variant = "Union" /\ ty.name = None -> Ident(anon_type_name(UnionWord, type_id))
      [] ty.variant = "Enum" /\ ty.name = None -> Ident(anon_type_name(EnumWord, type_id))
      [] ty.variant \in {"Typedef", "Fwd"} -> Ident(ty.name[1])
      [] ty.variant \in {"Const", "Volatile", "Restrict"} -> Render(prev, ty.type_id)
      [] ty.variant = "FuncProto" -> Wrap("fn", FuncProto(prev, ty.ret_type_id, ty.params))
      [] OTHER -> Tok("")

\* TypeFmt::to_tokens for type_id, r the result of get_type(type_id).expect("type")
TypeFmt_expect(ts, ns, type_id, r, prev) ==
    IF ~r.ok THEN Panicked("type") ELSE TypeFmt_match(ts, ns, type_id, r.ty, prev)

\* the renderings of all type ids get_type knows, nested at most fuel references
\* deep; the nesting is deeper than that only on a cycle of references, where
\* the recursion of the code does not end
TypeFmtTable(ts, ns, fuel) ==
    LET ids == 0..(Len(ts.base.v) + Len(ts.types))
        F[k \in 0..fuel] ==
            IF k = 0 THEN [id \in ids |-> Panicked("stack overflow")]
            ELSE [id \in ids |-> TypeFmt_expect(ts, ns, id, Types_resolve(ts, id), F[k - 1])]
    IN F[fuel]

\* TypeFmt::to_tokens for type_id
TypeFmt(ts, ns, type_id, fuel) == Render(TypeFmtTable(ts, ns, fuel), type_id)

-----------------------------------------------------------------------------
(* rust: the declarations, and TypeDecl::to_tokens *)

\* TypeDecl::BUILDIN_TYPES
BUILDIN_TYPES ==
    { <<98, 111, 111, 108>>,                                           \* bool
      <<105, 56>>, <<117, 56>>, <<105, 49, 54>>, <<117, 49, 54>>,      \* i8 u8 i16 u16
      <<105, 51, 50>>, <<117, 51, 50>>, <<105, 54, 52>>, <<117, 54, 52>>,
      <<105, 49, 50, 56>>, <<117, 49, 50, 56>>,                        \* i128 u128
      <<102, 51, 50>>, <<102, 54, 52>> }                               \* f32 f64

\* Type::name
Type_name(ty) ==
    IF ty.variant \in {"Void", "Ptr", "Array", "Volatile", "Const", "Restrict", "FuncProto"}
    THEN None
    ELSE ty.name

NoDecl == [panic |-> FALSE, decl |-> None]
DeclPanic == [panic |-> TRUE, decl |-> None]
Decl(d) == [panic |-> d.panic, decl |-> IF d.panic THEN None ELSE Some(d)]

\* pub type #ident = #t;
TypeAlias(name, t, id) ==
    [decl |-> "type", name |-> name, target |-> t, id |-> id, panic |-> t.panic]

\* StructDecl::to_tokens / UnionDecl::to_tokens (word is "struct" or "union")
CompositeDecl(word, ts, ns, name, members, id, fuel) ==
    LET fields == [n \in 1..Len(members) |->
                     [name |-> IF members[n].name = None
                               THEN anon_type_name(FieldWord, n - 1)
                               ELSE escape_keyword(members[n].name[1]),
                      ty |-> TypeFmt(ts, ns, members[n].type_id, fuel)]]
    IN [decl |-> word, name |-> escape_keyword(name), fields |-> fields, id |-> id,
        panic |-> \E n \in 1..Len(fields) : fields[n].ty.panic]

\* EnumDecl::to_tokens: the variants, and the constants that alias an earlier
\* variant of the same value
EnumDecl(name, size, values, id) ==
    LET first(n) == CHOOSE m \in 1..n : /\ values[m].val = values[n].val
                                        /\ \A l \in 1..(m - 1) : values[l].val # values[n].val
        ident(n) == IF values[n].name = None THEN anon_type_name(EnumWord, n - 1)
                    ELSE escape_keyword(values[n].name[1])
        item(n) == IF first(n) < n
                   THEN [const |-> TRUE, name |-> ident(n),
                         alias |-> IF values[first(n)].name = None THEN << >>
                                   ELSE escape_keyword(values[first(n)].name[1]),
                         panic |-> values[first(n)].name = None]
                   ELSE [const |-> FALSE, name |-> ident(n), val |-> values[n].val,
                         panic |-> FALSE]
        items_ == [n \in 1..Len(values) |-> item(n)]
    IN [decl |-> "enum", name |-> escape_keyword(name), id |-> id,
        repr |-> IF values = << >> THEN None ELSE Some(IntIdent(FALSE, size)),
        variants |-> SelectSeq(items_, LAMBDA x : ~x.const),
        consts |-> SelectSeq(items_, LAMBDA x : x.const),
        has_impl |-> \E n \in 1..Len(items_) : items_[n].const,
        panic |-> \E n \in 1..Len(items_) : items_[n].panic]

\* FuncDecl::to_tokens
FuncDecl(ts, ns, name, proto_type_id, id, fuel) ==
    LET r == Types_resolve(ts, proto_type_id)
        proto == IF r.ok /\ r.ty.variant = "FuncProto"
                 THEN Some(FuncProto(TypeFmtTable(ts, ns, fuel), r.ty.ret_type_id,
                                     r.ty.params))
                 ELSE None
    IN [decl |-> "fn", name |-> escape_keyword(name), proto |-> proto, id |-> id,
        panic |-> ~r.ok \/ (proto # None /\ proto[1].panic)]

\* the Fwd arm: self.types.types.iter().any(..)
Fwd_found(types, fwd_name, fwd_kind) ==
    \E n \in 1..Len(types) :
        /\ types[n].variant = fwd_kind
        /\ (IF types[n].name = None THEN << >> ELSE types[n].name[1]) = fwd_name

\* the Struct / Union / Enum arms: the name, made unique, and the declaration
NamedDecl(word, ts, ns, ty, id, fuel) ==
    LET kw == CASE word = "struct" -> StructWord [] word = "union" -> UnionWord
                [] OTHER -> EnumWord
        name == IF ty.name = None THEN anon_type_name(kw, id) ELSE escape_keyword(ty.name[1])
        u == Namespace_get_unique_name(ns, name, id)
        d == IF word = "enum" THEN EnumDecl(u.name, ty.size, ty.values, id)
             ELSE CompositeDecl(word, ts, u.ns, u.name, ty.members, id, fuel)
    IN IF u.panic THEN DeclPanic @@ [ns |-> ns]
       ELSE Decl(d) @@ [ns |-> u.ns]

\* the Typedef arm
TypedefArm(ts, ns, ty, id, fuel) ==
    IF ty.name[1] \in BUILDIN_TYPES THEN NoDecl @@ [ns |-> ns]
    ELSE LET inner == Types_resolve(ts, ty.type_id)
             u == Namespace_get_unique_name(ns, escape_keyword(ty.name[1]), id)
         IN IF ~inner.ok THEN DeclPanic @@ [ns |-> ns]
            ELSE IF Type_name(inner.ty) = ty.name THEN NoDecl @@ [ns |-> ns]
            ELSE IF u.panic THEN DeclPanic @@ [ns |-> ns]
            ELSE Decl(TypeAlias(escape_keyword(u.name),
                                TypeFmt(ts, u.ns, ty.type_id, fuel), id))
                 @@ [ns |-> u.ns]

\* TypeDecl::to_tokens for entry ty of the local vector with type_id id: whether it
\* panicked, the declaration appended (if any), and the namespace afterwards
TypeDecl(ts, ns, ty, id) ==
    LET fuel == Len(ts.base.v) + Len(ts.types) + 2
    IN CASE ty.variant = "Int" /\ ty.is_bool ->
              Decl(TypeAlias(escape_keyword(ty.name[1]), Tok("bool"), id)) @@ [ns |-> ns]
         [] ty.variant = "Float" ->
              Decl(TypeAlias(escape_keyword(ty.name[1]), Ident(FloatIdent(ty.size)), id))
              @@ [ns |-> ns]
         [] ty.variant = "Struct" -> NamedDecl("struct", ts, ns, ty, id, fuel)
         [] ty.variant = "Union" -> NamedDecl("union", ts, ns, ty, id, fuel)
         [] ty.variant = "Enum" -> NamedDecl("enum", ts, ns, ty, id, fuel)
         [] ty.variant = "Fwd" ->
              IF Fwd_found(ts.types, ty.name[1], ty.fwd_kind) THEN NoDecl @@ [ns |-> ns]
              ELSE Decl(TypeAlias(ty.name[1], Tok("c_void"), id)) @@ [ns |-> ns]
         [] ty.variant = "Typedef" -> TypedefArm(ts, ns, ty, id, fuel)
         [] ty.variant = "Func" ->
              Decl(FuncDecl(ts, ns, ty.name[1], ty.type_id, id, fuel)) @@ [ns |-> ns]
         [] OTHER -> NoDecl @@ [ns |-> ns]

-----------------------------------------------------------------------------
(* rust: Types::to_tokens over a local vector, one TypeDecl at a time *)

\* longest local vector drawn for the emitter
MaxTypes == 3

NameA == <<97>>
NameB == <<98>>
NameA3 == <<97, 95, 51>>                 \* "a_3": the rename of an "a" with type id 3
NameU8 == <<117, 56>>                    \* "u8", a built-in name

\* the local entries drawn, as ty::Type values
TypeTemplates ==
    { [variant |-> "Struct", name |-> Some(NameA), size |-> 0, members |-> << >>],
      [variant |-> "Struct", name |-> Some(NameA3), size |-> 0, members |-> << >>],
      [variant |-> "Struct", name |-> None, size |-> 4,
       members |-> <<[name |-> Some(NameA), type_id |-> 2, bits_offset |-> 0,
                      bitfield_size |-> 0]>>],
      [variant |-> "Union", name |-> Some(NameA), size |-> 0, members |-> << >>],
      [variant |-> "Enum", name |-> Some(NameA), size |-> 4, values |-> << >>],
      [variant |-> "Fwd", name |-> Some(NameA), fwd_kind |-> "Struct"],
      [variant |-> "Typedef", name |-> Some(NameA), type_id |-> 1],
      [variant |-> "Typedef", name |-> Some(NameU8), type_id |-> 1],
      [variant |-> "Typedef", name |-> Some(NameB), type_id |-> 2],
      [variant |-> "Int", name |-> Some(NameB), size |-> 4, bits_offset |-> 0,
       nr_bits |-> 32, is_bool |-> FALSE, is_signed |-> TRUE] }

\* no base, or a base of one INT "b"
EmitBases ==
    { [some |-> FALSE, v |-> << >>],
      [some |-> TRUE,
       v |-> <<[variant |-> "Int", name |-> Some(NameB), size |-> 4, bits_offset |-> 0,
                nr_bits |-> 32, is_bool |-> FALSE, is_signed |-> TRUE]>>] }

InitEmit ==
    /\ input = << >>
    /\ gen = SectionGen(<<159, 235>>, << >>)
    /\ overflow_checks \in BOOLEAN
    /\ pc = "emit"
    /\ file = NoFile
    /\ it = NoTypes
    /\ items = << >>
    /\ rs = NoRs
    /\ iw = NoIw
    /\ pa = NoPa
    /\ \E b \in EmitBases, v \in SeqsUpTo(TypeTemplates, MaxTypes) :
          em = [done |-> FALSE, base |-> b, types |-> v, next |-> 1,
                ns |-> Namespace_default, out |-> << >>]

\* the closure of Types::to_tokens for the next entry: TypeDecl::new(self, ns,
\* idx + 1, ty) and its to_tokens
Types_to_tokens_next ==
    /\ pc = "emit"
    /\ em.next <= Len(em.types)
    /\ LET ts == [base |-> em.base, types |-> em.types, checks |-> overflow_checks]
           d == TypeDecl(ts, em.ns, em.types[em.next], em.next)
       IN IF d.panic
          THEN pc' = "panic" /\ em' = [em EXCEPT !.out = << >>]
          ELSE /\ pc' = pc
               /\ em' = [em EXCEPT !.next = em.next + 1, !.ns = d.ns,
                                   !.out = em.out \o d.decl]
    /\ UNCHANGED <<input, overflow_checks, gen, file, it, items, rs, iw, pa>>

\* every entry declared: to_tokens returns, dump has its string
Types_to_tokens_end ==
    /\ pc = "emit"
    /\ em.next > Len(em.types)
    /\ pc' = "emit_done"
    /\ em' = [em EXCEPT !.done = TRUE]
    /\ UNCHANGED <<input, overflow_checks, gen, file, it, items, rs, iw, pa>>

SpecEmit == InitEmit /\ [][Types_to_tokens_next \/ Types_to_tokens_end]_vars

-----------------------------------------------------------------------------
(* What the properties below speak of *)

ValidMagic == MagicLE(input) \/ MagicBE(input)

Parsed == pc \notin {"start", "str", "str_done", "info", "info_done"}

Accepted == Parsed /\ file.tag = "Ok"

\* where the header ends: its length field, or the 24 fixed bytes if that is less
HdrEnd == IF Lt32(W(0, Header_SIZE), gen.len) THEN gen.len.lo ELSE Header_SIZE

\* a + b without wrapping, for comparing
Sum(a, b) == W(a.hi + b.hi + (a.lo + b.lo) \div Half, (a.lo + b.lo) % Half)

\* the section at off, of length len, measured from the end of the header, ends
\* beyond the buffer
Overruns(off, len) == Lt32(W(0, Len(input)), Sum(W(0, HdrEnd), Sum(off, len)))

TypeOverrun == Overruns(gen.type_off, gen.type_len)
StrOverrun == Overruns(gen.str_off, gen.str_len)

NegativeGap == Lt32(gen.str_off, Sum(gen.type_off, gen.type_len))

HeaderComplete == Len(input) >= Header_SIZE

\* the n bytes of s after its first a bytes; -1 where s has none
Slice(s, a, n) == [j \in 1..n |-> IF a + j <= Len(s) THEN s[a + j] ELSE -1]

AllOk(its) == \A n \in 1..Len(its) : its[n].ok

\* the items lie end to end from 0 to len, each as long as Info::type_size says
Tiles(its, len) ==
    /\ its = << >> => len = 0
    /\ its # << >> => its[1].from = 0 /\ its[Len(its)].to = len
    /\ \A n \in 1..Len(its) :
          /\ its[n].to - its[n].from = Info_type_size(its[n].info, its[n].kind)
          /\ n < Len(its) => its[n].to = its[n + 1].from

-----------------------------------------------------------------------------
(* C1 *)

\* C1: when next() has returned None the reader has consumed the type section
\* exactly (type_len bytes); every entry yielded Ok took its whole size from inside
\* the section; so if all items were Ok the section is a tiling by complete entries,
\* and a section that ends inside an entry (header or payload) has yielded an error.
C1_ConsumesExactly ==
    /\ \A n \in 1..Len(items) :
          items[n].ok => /\ items[n].to <= Len(it.types)
                         /\ items[n].to - items[n].from
                              = Info_type_size(items[n].info, items[n].kind)
    /\ pc = "done" =>
          /\ it.i = Len(it.types)
          /\ file.header.type_len = W(0, it.i)
          /\ AllOk(items) => Tiles(items, Len(it.types))

\* an INT entry decoded whole, then an entry cut inside its payload: an error, and
\* the iteration exhausted
C1_Witness ==
    /\ pc = "done"
    /\ Len(items) = 2
    /\ items[1].ok /\ items[1].ty.variant = "Int"
    /\ ~items[2].ok /\ items[2].err = EndOfInput /\ items[2].kind = "Integer"

\* C2: once next() has returned an Err, no further item is yielded: only the last
\* item can be an error.
C2_ErrorTerminates == \A n \in 1..(Len(items) - 1) : items[n].ok

\* C3: the first two bytes select the byte order: 9f eb little-endian, eb 9f
\* big-endian, the header words decoded in that order (so a buffer whose header,
\* read in the order of its magic, describes sections inside the buffer is
\* accepted); anything else is Malformed("invalid magic") and no File.
C3_ByteOrderFromMagic ==
    Parsed =>
       /\ ~ValidMagic => file = FileErr(Malformed("invalid magic"))
       /\ (ValidMagic /\ HeaderComplete /\ ~TypeOverrun /\ ~StrOverrun /\ ~NegativeGap) =>
             file.tag = "Ok"
       /\ file.tag = "Ok" =>
             /\ ValidMagic
             /\ it.is_le = MagicLE(input)
             /\ <<file.header.len, file.header.type_off, file.header.type_len,
                  file.header.str_off, file.header.str_len>>
                  = <<gen.len, gen.type_off, gen.type_len, gen.str_off, gen.str_len>>

\* a big-endian buffer accepted, with a type_len whose bytes read differently in
\* the other order
C3_Witness ==
    /\ Accepted
    /\ MagicBE(input)
    /\ ~it.is_le
    /\ file.header.type_len = W(0, 2)
    /\ SubSeq(input, 13, 16) = <<0, 0, 0, 2>>

C5_SectionsFromHeaderEnd ==
    (Accepted /\ ~Lt32(gen.len, W(0, Header_SIZE))) =>
       /\ gen.type_off.hi = 0 /\ gen.type_len.hi = 0
       /\ gen.str_off.hi = 0 /\ gen.str_len.hi = 0
       /\ file.types = Slice(input, gen.len.lo + gen.type_off.lo, gen.type_len.lo)
       /\ file.strs = Slice(input, gen.len.lo + gen.str_off.lo, gen.str_len.lo)

\* a 26-byte header, the type section one byte after it, both sections non-empty
C5_Witness ==
    /\ Accepted
    /\ gen.len = W(0, 26)
    /\ gen.type_off = W(0, 1) /\ gen.type_len = W(0, 2)
    /\ gen.str_off = W(0, 3) /\ gen.str_len = W(0, 1)
    /\ file.types = <<20, 21>>
    /\ file.strs = <<22>>

\* C6: a header with str_off < type_off + type_len is rejected with a Malformed
\* error, so an accepted File has type_off + type_len <= str_off and
\* str_off + str_len within the body.
C6_NegativeGapMalformed ==
    /\ (Parsed /\ ValidMagic /\ HeaderComplete /\ NegativeGap) =>
          file.tag = "Err" /\ file.err.kind = "Malformed"
    /\ Accepted => ~NegativeGap /\ ~StrOverrun

\* C7: read_str returns None exactly when off = 0; for any other offset inside the
\* section it returns the bytes from off up to the first NUL at or after off, or a
\* Utf8 error when those bytes are not UTF-8.
C7_ReadStr ==
    rs.done =>
       /\ (rs.res = StrOk(None)) <=> (rs.off = W(0, 0))
       /\ (rs.off # W(0, 0) /\ Lt32(rs.off, W(0, Len(rs.strs)))) =>
             LET rest == SubSeq(rs.strs, rs.off.lo + 1, Len(rs.strs))
                 nul == IF \E j \in 1..Len(rest) : rest[j] = 0
                        THEN CHOOSE j \in 1..Len(rest) :
                                 rest[j] = 0 /\ \A m \in 1..(j - 1) : rest[m] # 0
                        ELSE Len(rest) + 1
                 seg == SubSeq(rest, 1, nul - 1)
             IN IF Utf8Valid(seg) THEN rs.res = StrOk(Some(seg))
                ELSE rs.res = StrErr(Utf8Error)

\* C8: read_str fails with OutOfRange for every non-zero off >= len(strs) and never
\* returns Ok there.
C8_OutOfRange ==
    (rs.done /\ rs.off # W(0, 0) /\ ~Lt32(rs.off, W(0, Len(rs.strs)))) =>
       ~rs.res.ok /\ rs.res.err.kind = "OutOfRange"

\* the bits of a and b as drawn: bit 28 is the lowest of the three bits 28-30
Bit28(g) == g.hi3 % 2

SameDecoded(x, y) ==
    x.vlen = y.vlen /\ x.kflag = y.kflag /\ x.kind_bits = y.kind_bits /\ x.kind = y.kind

C10_UnknownKindIsVoid ==
    /\ pc # "ub"
    /\ \A n \in 1..Len(items) :
          (items[n].kind # "" /\ Info_kind_bits(items[n].info) >= Len(KindNames)) =>
             /\ items[n].ok
             /\ items[n].ty = [variant |-> "Void"]
             /\ items[n].to - items[n].from = Type_SIZE


-----------------------------------------------------------------------------
(* C11 *)

\* C11: under SpecEntry, an entry of a declared kind that read_type decodes
\* successfully has advanced the reader by 12 bytes plus the payload of its kind
\* (INT 4, ARRAY 12, STRUCT/UNION 12*vlen, ENUM 8*vlen, ENUM64 12*vlen, FUNC_PROTO
\* 8*vlen, VARIABLE 4, DATASEC 12*vlen, DECL_TAG 4, every other kind 0), which is
\* Info::type_size of the entry.
C11_AdvanceIsTypeSize ==
    \A n \in 1..Len(items) :
        items[n].ok =>
           LET k == KindNames[gen.kind + 1]
               payload == CASE k = "Integer" -> 4
                            [] k = "Array" -> 12
                            [] k \in {"Struct", "Union"} -> 12 * gen.vlen
                            [] k = "Enum" -> 8 * gen.vlen
                            [] k = "Enum64" -> 12 * gen.vlen
                            [] k = "FuncProto" -> 8 * gen.vlen
                            [] k = "Variable" -> 4
                            [] k = "DataSection" -> 12 * gen.vlen
                            [] k = "DeclTag" -> 4
                            [] OTHER -> 0
           IN /\ items[n].kind = k
              /\ items[n].info = EntryInfo(gen)
              /\ items[n].from = 0
              /\ items[n].to = 12 + payload
              /\ items[n].to = Info_type_size(items[n].info, items[n].kind)

\* an ENUM64 of two variants decoded: 36 bytes taken, the bytes after them left
C11_Witness ==
    /\ pc = "entry_done"
    /\ Len(items) = 1 /\ items[1].ok
    /\ items[1].kind = "Enum64" /\ gen.vlen = 2
    /\ it.i = 36 /\ Len(it.types) = 40
    /\ Len(items[1].ty.values) = 2

-----------------------------------------------------------------------------
(* C12 *)

\* C12: under SpecEntry, a decoded STRUCT or UNION has vlen members; with kind_flag
\* set each member's offset word w gives bitfield_size = w >> 24 (< 256) and
\* bits_offset = w & 0x00FFFFFF (< 2^24); with kind_flag clear bits_offset = w and
\* bitfield_size = 0. The members are the same whether the entry is a STRUCT or a
\* UNION: they depend on kind_flag, vlen and the member words only.
C12_MemberBitfields ==
    \A n \in 1..Len(items) :
        (items[n].ok /\ items[n].kind \in {"Struct", "Union"}) =>
           LET w == gen.w1
               member == [name |-> IF gen.enm = 0 THEN None ELSE Some(<<97>>),
                          type_id |-> W(0, 1),
                          bits_offset |-> IF gen.kf = 1 THEN W(w.hi % 256, w.lo) ELSE w,
                          bitfield_size |-> IF gen.kf = 1 THEN w.hi \div 256 ELSE 0]
           IN /\ items[n].ty.variant = items[n].kind
              /\ items[n].ty.members = [m \in 1..gen.vlen |-> member]
              /\ gen.kf = 1 => member.bits_offset.hi < 256 /\ member.bitfield_size < 256

\* a UNION with kind_flag set and two members whose offset word is 0xffffffff:
\* bitfield_size 255, bits_offset 0x00ffffff
C12_Witness ==
    /\ pc = "entry_done"
    /\ Len(items) = 1 /\ items[1].ok /\ items[1].kind = "Union"
    /\ gen.kf = 1 /\ gen.w1 = W(65535, 65535)
    /\ Len(items[1].ty.members) = 2
    /\ items[1].ty.members[2].bitfield_size = 255
    /\ items[1].ty.members[2].bits_offset = W(255, 65535)

-----------------------------------------------------------------------------
(* C13 *)

\* C13: under SpecEntry, the variants of a decoded ENUM carry their 32-bit value
\* word zero-extended (the high 32 bits of val are 0, so val < 2^32), and the
\* variants of a decoded ENUM64 carry val with val_hi32 as its high and val_lo32 as
\* its low 32 bits, for the value words drawn.
C13_EnumValues ==
    \A n \in 1..Len(items) :
        (items[n].ok /\ items[n].kind \in {"Enum", "Enum64"}) =>
           LET name == IF gen.enm = 0 THEN None ELSE Some(<<97>>)
               val == IF items[n].kind = "Enum" THEN U64(W(0, 0), gen.w1)
                      ELSE U64(gen.w2, gen.w1)
           IN /\ items[n].ty.variant = "Enum"
              /\ items[n].ty.values = [m \in 1..gen.vlen |-> [name |-> name, val |-> val]]

\* an ENUM variant whose value word is 0xffffffff: val is 0x00000000ffffffff
C13_Witness ==
    /\ pc = "entry_done"
    /\ Len(items) = 1 /\ items[1].ok /\ items[1].kind = "Enum"
    /\ gen.w1 = W(65535, 65535)
    /\ Len(items[1].ty.values) = 2
    /\ items[1].ty.values[1].val = U64(W(0, 0), W(65535, 65535))

-----------------------------------------------------------------------------
(* C14 *)

\* C14: under SpecParam, a parameter is reported variadic by
\* file::Param::is_variable_argument, and (when it decodes) by
\* ty::Param::is_variable_argument, if and only if both its name offset and its
\* type id are 0; so the two agree, and a parameter with one of the two zero is
\* an ordinary parameter.
C14_VariadicIffBothZero ==
    pa.done =>
       LET both == pa.raw.name_off = W(0, 0) /\ pa.raw.ty = W(0, 0)
       IN /\ pa.read = pa.raw
          /\ pa.file_variadic = both
          /\ pa.ok => pa.ty_variadic = both

-----------------------------------------------------------------------------
(* C15 *)

\* C15: under SpecEntry, for an entry that lies whole inside the section and whose
\* name_off is 0: of kind INT, FWD, TYPEDEF, FUNC, VARIABLE, DATASEC, FLOAT,
\* DECL_TAG or TYPE_TAG, read_type returns the Expected error of that kind and no
\* entry; of kind STRUCT, UNION or ENUM, it returns the entry with name None.
C15_NameRequired ==
    \A n \in 1..Len(items) :
        (gen.name = 0 /\ gen.cut <= 4) =>
           LET k == KindNames[gen.kind + 1]
               tag == CASE k = "Integer" -> "int name"
                        [] k = "Forward" -> "forward name"
                        [] k = "Typedef" -> "typedef name"
                        [] k = "Func" -> "func name"
                        [] k = "Variable" -> "var name"
                        [] k = "DataSection" -> "datasec name"
                        [] k = "Float" -> "float name"
                        [] k = "DeclTag" -> "decl_tag name"
                        [] k = "TypeTag" -> "type_tag name"
                        [] OTHER -> ""
           IN /\ tag # "" =>
                    /\ ~items[n].ok
                    /\ items[n].err = Expected(tag)
                    /\ items[n].ty = [variant |-> "None"]
              /\ k \in {"Struct", "Union", "Enum"} =>
                    /\ items[n].ok
                    /\ items[n].ty.variant = k
                    /\ items[n].ty.name = None

\* an INT without a name, its payload present: Expected("int name") after the
\* payload was read
C15_Witness ==
    /\ pc = "entry_done"
    /\ gen.name = 0 /\ gen.cut = 4 /\ gen.kind = 1
    /\ Len(items) = 1 /\ ~items[1].ok
    /\ items[1].err = Expected("int name")
    /\ it.i = 16

-----------------------------------------------------------------------------
(* C16 *)

\* the type ids a decoded entry refers to
TypeIds(t) ==
    CASE t.variant \in {"Ptr", "Typedef", "Volatile", "Const", "Restrict", "Func",
                        "Variable", "DeclTag", "TypeTag"} -> {t.type_id}
      [] t.variant = "Array" -> {t.type_id, t.index_type_id}
      [] t.variant \in {"Struct", "Union"} ->
            {t.members[m].type_id : m \in 1..Len(t.members)}
      [] t.variant = "FuncProto" ->
            {t.ret_type_id} \cup {t.params[m].type_id : m \in 1..Len(t.params)}
      [] t.variant = "DataSec" -> {t.sections[m].type_id : m \in 1..Len(t.sections)}
      [] OTHER -> {}

\* C16: under SpecEntry, when the type section is exactly one entry and it decodes
\* (so the full decode succeeds with n = 1 entries), every type id the entry refers
\* to is 0 or 1.
C16_TypeIdsInRange ==
    (pc = "entry_done" /\ it.i = Len(it.types) /\ Len(items) = 1 /\ items[1].ok) =>
       \A id \in TypeIds(items[1].ty) : id.hi = 0 /\ id.lo <= Len(items)

-----------------------------------------------------------------------------
(* C17 *)

\* C17: under SpecGetType, with a base of B entries and L local entries,
\* get_type(0) is VOID; get_type(id) with 1 <= id <= B is base[id - 1]; with
\* B < id <= B + L it is local[id - B - 1]; with id > B + L it is OutOfRange.
C17_GetTypePartition ==
    em.done =>
       LET B == IF em.base.some THEN em.base.len ELSE 0
           L == em.types_len
           id == em.type_id
       IN IF id = W(0, 0) THEN em.res = [tag |-> "Ok", of |-> "VOID", idx |-> 0]
          ELSE IF id.hi = 0 /\ id.lo <= B
               THEN em.res = [tag |-> "Ok", of |-> "base", idx |-> id.lo - 1]
          ELSE IF id.hi = 0 /\ id.lo <= B + L
               THEN em.res = [tag |-> "Ok", of |-> "types", idx |-> id.lo - B - 1]
          ELSE em.res.tag = "Err" /\ em.res.err.kind = "OutOfRange"

-----------------------------------------------------------------------------
(* C18 *)

\* the declarations of the output so far that are structs, unions or enums
NamedDecls == SelectSeq(em.out, LAMBDA d : d.decl \in {"struct", "union", "enum"})

\* C18: under SpecEmit, at every point of the emission the struct, union and enum
\* declarations written so far carry pairwise distinct identifiers, each the one
\* the namespace holds, whatever the source names and their order. (Where the
\* rename '<name>_<id>' of an entry is itself taken already, the emitter panics
\* and there is no output.)
C18_DeclNamesDistinct ==
    /\ \A m, n \in 1..Len(NamedDecls) : m # n => NamedDecls[m].name # NamedDecls[n].name
    /\ \A n \in 1..Len(NamedDecls) :
          \E k \in 1..Len(em.ns.names) : em.ns.names[k] = NamedDecls[n].name

\* a struct, a union and an enum all named "a" declared: "a", "a_2" and "a_3"
C18_Witness ==
    /\ pc = "emit_done"
    /\ Len(em.types) = 3
    /\ \A n \in 1..3 : em.types[n].name = Some(NameA)
    /\ em.types[1].variant = "Struct" /\ em.types[2].variant = "Union"
    /\ em.types[3].variant = "Enum"
    /\ Len(em.out) = 3
    /\ em.out[1].name = NameA
    /\ em.out[2].name = NameA \o <<95, 50>>
    /\ em.out[3].name = NameA3

-----------------------------------------------------------------------------
(* C19 *)

\* the type aliases of the finished output declared under name n with target c_void
VoidAliases(n) ==
    SelectSeq(em.out, LAMBDA d : d.decl = "type" /\ d.name = n /\ d.target = Tok("c_void"))

\* C19: under SpecEmit, in the finished output, for every Fwd{name = N} of the local
\* vector: if no local Struct{name = N} or Union{name = N} exists there is exactly
\* one 'type N = c_void' (also when several Fwd entries carry the name N); if one
\* exists, no typedef of N is emitted for the forward.
C19_FwdTypedefOnce ==
    pc = "emit_done" =>
       \A f \in 1..Len(em.types) :
           em.types[f].variant = "Fwd" =>
              LET N == em.types[f].name[1]
                  declared == \E n \in 1..Len(em.types) :
                                  /\ em.types[n].variant \in {"Struct", "Union"}
                                  /\ em.types[n].name = Some(N)
              IN IF declared
                 THEN \A n \in 1..Len(VoidAliases(N)) : VoidAliases(N)[n].id # f
                 ELSE Len(VoidAliases(N)) = 1

-----------------------------------------------------------------------------
(* C20 *)

\* the entry a type id stands for in the (base, local) numbering, if any
Target(T) ==
    LET B == Len(em.base.v)
    IN IF T = 0 THEN Some([variant |-> "Void"])
       ELSE IF T <= B THEN Some(em.base.v[T])
       ELSE IF T <= B + Len(em.types) THEN Some(em.types[T - B])
       ELSE None

\* C20: under SpecEmit, the emitter does not stop at a Typedef entry, and in the
\* finished output a Typedef{name = N, type_id = T} has no declaration when N is a
\* built-in name or T stands for a type whose own name is N, and exactly one
\* typedef declaration otherwise.
C20_TypedefOnceUnlessBuiltinOrSame ==
    /\ pc = "panic" => em.types[em.next].variant # "Typedef"
    /\ pc = "emit_done" =>
          \A f \in 1..Len(em.types) :
              em.types[f].variant = "Typedef" =>
                 LET N == em.types[f].name[1]
                     t == Target(em.types[f].type_id)
                     none == \/ N \in BUILDIN_TYPES
                             \/ t # None /\ Type_name(t[1]) = Some(N)
                     mine == SelectSeq(em.out, LAMBDA d : d.decl = "type" /\ d.id = f)
                 IN Len(mine) = IF none THEN 0 ELSE 1

-----------------------------------------------------------------------------
(* rust: EnumDecl::to_tokens over the enums drawn *)

\* most enumerators of an enum drawn
MaxValues == 3

NameFn == <<102, 110>>                   \* "fn", a reserved word

\* the enumerators drawn: anonymous (name_off 0) or named, of value 0 or 1
EnumValues == {[name |-> nm, val |-> v] : nm \in {None, Some(NameA), Some(NameB)},
                                          v \in {0, 1}}

InitEnum ==
    /\ input = << >>
    /\ gen = SectionGen(<<159, 235>>, << >>)
    /\ overflow_checks = TRUE
    /\ pc = "enum"
    /\ file = NoFile
    /\ it = NoTypes
    /\ items = << >>
    /\ rs = NoRs
    /\ iw = NoIw
    /\ pa = NoPa
    /\ \E v \in SeqsUpTo(EnumValues, MaxValues) :
          em = [done |-> FALSE, values |-> v, res |-> [panic |-> FALSE]]

\* EnumDecl::new("a", 4, values) rendered
EnumDecl_to_tokens ==
    /\ pc = "enum"
    /\ pc' = "enum_done"
    /\ em' = [em EXCEPT !.done = TRUE, !.res = EnumDecl(NameA, 4, em.values, 1)]
    /\ UNCHANGED <<input, overflow_checks, gen, file, it, items, rs, iw, pa>>

SpecEnum == InitEnum /\ [][EnumDecl_to_tokens]_vars

-----------------------------------------------------------------------------
(* C21 *)

\* the enumerators before the n-th that bear its value
Earlier(vs, n) == {m \in 1..(n - 1) : vs[m].val = vs[n].val}

\* the identifier an enumerator is emitted under
ValueIdent(vs, n) ==
    IF vs[n].name = None THEN anon_type_name(EnumWord, n - 1)
    ELSE escape_keyword(vs[n].name[1])

\* C21: under SpecEnum, every enum is emitted (the emitter does not stop), and in
\* its emission the enumerators that are the first to bear their value are the
\* variants 'Name = value', in declaration order, every later enumerator of a
\* value already seen is a constant 'pub const Later: Self = Self::First' naming
\* the first enumerator of that value, the impl block exists iff there is such a
\* duplicate, and there are as many variants as distinct values.
C21_EnumDedup ==
    pc = "enum_done" =>
       LET vs == em.values
           firsts == {n \in 1..Len(vs) : Earlier(vs, n) = {}}
           later == {n \in 1..Len(vs) : Earlier(vs, n) # {}}
           r == em.res
       IN /\ ~r.panic
          /\ Len(r.variants) = Cardinality({vs[n].val : n \in 1..Len(vs)})
          /\ Len(r.variants) = Cardinality(firsts)
          /\ Len(r.consts) = Cardinality(later)
          /\ r.has_impl <=> later # {}
          /\ \A k \in 1..Len(r.variants) :
                \E n \in firsts :
                   /\ Cardinality({m \in firsts : m <= n}) = k
                   /\ r.variants[k].name = ValueIdent(vs, n)
                   /\ r.variants[k].val = vs[n].val
          /\ \A k \in 1..Len(r.consts) :
                \E n \in later :
                   /\ Cardinality({m \in later : m <= n}) = k
                   /\ r.consts[k].name = ValueIdent(vs, n)
                   /\ \E f \in firsts : /\ vs[f].val = vs[n].val
                                        /\ r.consts[k].alias = ValueIdent(vs, f)

-----------------------------------------------------------------------------
(* rust: Types::to_tokens over local vectors whose entries refer to each other *)

\* longest local vector drawn with references
MaxRefTypes == 3

NameC == <<99>>

\* a member of type type_id, at offset 0
MemberOf(name, type_id) ==
    [name |-> Some(name), type_id |-> type_id, bits_offset |-> 0, bitfield_size |-> 0]

\* the local entries drawn, as ty::Type values: names that are reserved words,
\* named and anonymous composites, entries that get no name of their own, and
\* references to the entries of id 1 and 2
RefTemplates ==
    { [variant |-> "Fwd", name |-> Some(NameFn), fwd_kind |-> "Struct"],
      [variant |-> "Typedef", name |-> Some(NameFn), type_id |-> 1],
      [variant |-> "Struct", name |-> Some(NameFn), size |-> 0, members |-> << >>],
      [variant |-> "Struct", name |-> None, size |-> 4,
       members |-> <<MemberOf(NameFn, 2)>>],
      [variant |-> "Struct", name |-> Some(NameA), size |-> 4,
       members |-> <<MemberOf(NameA, 2)>>],
      [variant |-> "Struct", name |-> Some(NameA), size |-> 0, members |-> << >>],
      [variant |-> "Int", name |-> Some(NameB), size |-> 4, bits_offset |-> 0,
       nr_bits |-> 32, is_bool |-> FALSE, is_signed |-> TRUE],
      [variant |-> "Typedef", name |-> Some(NameC), type_id |-> 2] }

InitRef ==
    /\ input = << >>
    /\ gen = SectionGen(<<159, 235>>, << >>)
    /\ overflow_checks \in BOOLEAN
    /\ pc = "emit"
    /\ file = NoFile
    /\ it = NoTypes
    /\ items = << >>
    /\ rs = NoRs
    /\ iw = NoIw
    /\ pa = NoPa
    /\ \E b \in EmitBases, v \in SeqsUpTo(RefTemplates, MaxRefTypes) :
          em = [done |-> FALSE, base |-> b, types |-> v, next |-> 1,
                ns |-> Namespace_default, out |-> << >>]

SpecRef == InitRef /\ [][Types_to_tokens_next \/ Types_to_tokens_end]_vars

-----------------------------------------------------------------------------
(* C22 *)

\* the identifiers of a rendered type expression (through pointers and arrays)
RECURSIVE IdentsOf(_)
IdentsOf(t) ==
    IF t.t = "ident" THEN {t.name}
    ELSE IF "inner" \in DOMAIN t THEN IdentsOf(t.inner)
    ELSE {}

\* the identifiers of a declaration of the output: its name, the names of its
\* fields, and the type names its fields or its aliased type refer to
DeclIdents(d) ==
    {d.name}
    \cup (IF d.decl \in {"struct", "union"}
          THEN {d.fields[n].name : n \in 1..Len(d.fields)}
               \cup UNION {IdentsOf(d.fields[n].ty) : n \in 1..Len(d.fields)}
          ELSE {})
    \cup (IF d.decl = "type" THEN IdentsOf(d.target) ELSE {})

\* C22: under SpecRef, no identifier of the finished output is a reserved word (a
\* source name that is the reserved word R appears as _R at every place), and a
\* forward or typedef whose source name is not reserved is declared under a name
\* that begins with that source name unchanged.
C22_KeywordEscape ==
    pc = "emit_done" =>
       \A k \in 1..Len(em.out) :
          /\ DeclIdents(em.out[k]) \cap Keywords = {}
          /\ LET src == em.types[em.out[k].id]
             IN (src.variant \in {"Fwd", "Typedef"} /\ src.name[1] \notin Keywords) =>
                   SubSeq(em.out[k].name, 1, Len(src.name[1])) = src.name[1]

-----------------------------------------------------------------------------
(* rust: a Namespace under a sequence of get_unique_name calls *)

\* most calls of get_unique_name made on one Namespace
MaxNsCalls == 3

\* largest type id passed to get_unique_name
MaxNsId == 3

NameA2 == <<97, 95, 50>>                 \* "a_2": the rename of an "a" with type id 2

\* the names proposed
NsNames == {NameA, NameA2, NameB}

InitNs ==
    /\ input = << >>
    /\ gen = SectionGen(<<159, 235>>, << >>)
    /\ overflow_checks = TRUE
    /\ pc = "ns"
    /\ file = NoFile
    /\ it = NoTypes
    /\ items = << >>
    /\ rs = NoRs
    /\ iw = NoIw
    /\ pa = NoPa
    /\ em = [done |-> FALSE, ns |-> Namespace_default, calls |-> << >>]

\* one call ns.get_unique_name(name, type_id); calls keeps what was asked, the
\* Namespace before and after, and what was returned
GetUniqueName ==
    /\ pc = "ns"
    /\ Len(em.calls) < MaxNsCalls
    /\ \E name \in NsNames, type_id \in 1..MaxNsId :
          LET u == Namespace_get_unique_name(em.ns, name, type_id)
              c == [name |-> name, type_id |-> type_id, before |-> em.ns,
                    after |-> u.ns, ret |-> u.name, panic |-> u.panic]
          IN /\ pc' = IF u.panic THEN "panic" ELSE pc
             /\ em' = [em EXCEPT !.ns = u.ns, !.calls = Append(em.calls, c)]
    /\ UNCHANGED <<input, overflow_checks, gen, file, it, items, rs, iw, pa>>

SpecNs == InitNs /\ [][GetUniqueName]_vars

-----------------------------------------------------------------------------
(* C23 *)

\* the elements of a sequence
Range(s) == {s[n] : n \in 1..Len(s)}

\* the calls before the k-th that returned a name for the same type id
Recorded(k) ==
    {j \in 1..(k - 1) : em.calls[j].type_id = em.calls[k].type_id /\ ~em.calls[j].panic}

\* C23: under SpecNs, every call get_unique_name(proposed, id) returns a name:
\* (1) when an earlier call recorded a name for id, that name, the Namespace
\* unchanged; (2) otherwise, when proposed is not in names, proposed, which is
\* inserted; (3) otherwise '<proposed>_<id>', which is inserted.
C23_GetUniqueNameSteps ==
    \A k \in 1..Len(em.calls) :
       LET c == em.calls[k]
           renamed == c.name \o Underscore \o Decimal(c.type_id)
       IN /\ ~c.panic
          /\ IF Recorded(k) # {}
             THEN /\ \A j \in Recorded(k) : c.ret = em.calls[j].ret
                  /\ c.after = c.before
             ELSE IF c.name \notin Range(c.before.names)
             THEN /\ c.ret = c.name
                  /\ Range(c.after.names) = Range(c.before.names) \cup {c.name}
             ELSE /\ c.ret = renamed
                  /\ Range(c.after.names) = Range(c.before.names) \cup {renamed}

-----------------------------------------------------------------------------
(* C24 *)

\* the calls that returned a name for type id t
CallsFor(t) == {j \in 1..Len(em.calls) : em.calls[j].type_id = t /\ ~em.calls[j].panic}

\* C24: under SpecNs, after any sequence of calls get_name(id) is the name
\* get_unique_name returned for id, and None for an id no call returned a name for.
C24_NameById ==
    \A t \in 1..MaxNsId :
       IF CallsFor(t) = {} THEN Namespace_get_name(em.ns, t) = None
       ELSE \A j \in CallsFor(t) : Namespace_get_name(em.ns, t) = Some(em.calls[j].ret)

-----------------------------------------------------------------------------
(* C25 *)

\* C25: under SpecNs, after any sequence of calls names is sorted ascending
\* without duplicates and holds exactly the identifiers the calls have returned.
C25_NamesSorted ==
    /\ \A n \in 1..(Len(em.ns.names) - 1) : StrLt(em.ns.names[n], em.ns.names[n + 1])
    /\ Range(em.ns.names) = {em.calls[j].ret : j \in {k \in 1..Len(em.calls) :
                                                          ~em.calls[k].panic}}

\* "b", then "a" inserted before it, then a second "a" renamed and inserted between
C25_Witness ==
    /\ pc = "ns"
    /\ Len(em.calls) = 3
    /\ em.calls[1].ret = NameB /\ em.calls[2].ret = NameA /\ em.calls[3].ret = NameA3
    /\ em.ns.names = <<NameA, NameA3, NameB>>

-----------------------------------------------------------------------------
(* rust: TypeFmt::to_tokens over vectors of modifiers *)

\* longest vector of modifiers drawn
MaxFmtTypes == 3

\* the entries drawn: an INT "b", and each modifier around the type of id 1 or 2
FmtTemplates ==
    { [variant |-> "Int", name |-> Some(NameB), size |-> 4, bits_offset |-> 0,
       nr_bits |-> 32, is_bool |-> FALSE, is_signed |-> TRUE] }
    \cup {[variant |-> v, type_id |-> t] : v \in {"Const", "Volatile", "Restrict"},
                                           t \in {1, 2}}
    \cup {[variant |-> "TypeTag", name |-> Some(NameA), type_id |-> t] : t \in {1, 2}}

InitFmt ==
    /\ input = << >>
    /\ gen = SectionGen(<<159, 235>>, << >>)
    /\ overflow_checks = TRUE
    /\ pc = "fmt"
    /\ file = NoFile
    /\ it = NoTypes
    /\ items = << >>
    /\ rs = NoRs
    /\ iw = NoIw
    /\ pa = NoPa
    /\ \E v \in SeqsUpTo(FmtTemplates, MaxFmtTypes) :
          em = [done |-> FALSE, types |-> v, res |-> << >>]

\* TypeFmt::new(types, ns, type_id) rendered for every type id of the vector
TypeFmt_to_tokens ==
    /\ pc = "fmt"
    /\ pc' = "fmt_done"
    /\ LET ts == [base |-> [some |-> FALSE, v |-> << >>], types |-> em.types,
                  checks |-> overflow_checks]
       IN em' = [em EXCEPT !.done = TRUE,
                           !.res = [id \in 1..Len(em.types) |->
                                      TypeFmt(ts, Namespace_default, id,
                                              Len(em.types) + 2)]]
    /\ UNCHANGED <<input, overflow_checks, gen, file, it, items, rs, iw, pa>>

SpecFmt == InitFmt /\ [][TypeFmt_to_tokens]_vars

-----------------------------------------------------------------------------
(* C26 *)

\* C26: under SpecFmt, the rendering of a Const, Volatile, Restrict or TypeTag
\* entry is the rendering of its inner type_id (so also through chains), and is
\* never the empty expression.
C26_ModifiersTransparent ==
    pc = "fmt_done" =>
       \A id \in 1..Len(em.types) :
          em.types[id].variant \in {"Const", "Volatile", "Restrict", "TypeTag"} =>
             /\ em.res[id] = Render(em.res, em.types[id].type_id)
             /\ em.res[id] # Tok("")

-----------------------------------------------------------------------------
(* C27 *)

\* the identifier a local entry proposes for its declaration
Proposed(ty, id) ==
    IF ty.name # None THEN escape_keyword(ty.name[1])
    ELSE anon_type_name(CASE ty.variant = "Struct" -> StructWord
                          [] ty.variant = "Union" -> UnionWord
                          [] OTHER -> EnumWord, id)

\* the local indices of the struct, union, enum and typedef entries declared so far
DeclaredNamed ==
    {em.out[k].id : k \in {j \in 1..Len(em.out) :
        em.types[em.out[j].id].variant \in {"Struct", "Union", "Enum", "Typedef"}}}

\* C27: under SpecEmit, the declarations are in the order of their entries, and of
\* the struct, union, enum and typedef entries that propose one identifier the
\* first is declared under that identifier and each later one, of type id k,
\* under '<identifier>_<k>' (so the emitter does not stop at such an entry).
C27_OrderAndRename ==
    /\ \A k \in 1..(Len(em.out) - 1) : em.out[k].id < em.out[k + 1].id
    /\ pc = "panic" => ~(/\ em.types[em.next].variant \in {"Struct", "Union", "Enum"}
                         /\ em.types[em.next].name # None)
    /\ \A k \in 1..Len(em.out) :
          LET i == em.out[k].id
              P == Proposed(em.types[i], i)
              earlier == {j \in DeclaredNamed : j < i /\ Proposed(em.types[j], j) = P}
          IN i \in DeclaredNamed =>
                em.out[k].name = IF earlier = {} THEN P
                                 ELSE P \o Underscore \o Decimal(Len(em.base.v) + i)

-----------------------------------------------------------------------------
(* C28 *)

\* the local position of the entry a type id stands for (0 where it is none)
LocalOf(type_id) ==
    IF type_id > Len(em.base.v) /\ type_id <= Len(em.base.v) + Len(em.types)
    THEN type_id - Len(em.base.v) ELSE 0

\* the type ids a local entry refers to in a field or as the type it aliases
RefsOf(ty) ==
    CASE ty.variant \in {"Struct", "Union"} ->
            [n \in 1..Len(ty.members) |-> ty.members[n].type_id]
      [] ty.variant = "Typedef" -> <<ty.type_id>>
      [] OTHER -> << >>

\* the type expressions a declaration renders for the references of its entry
RenderedRefs(d) ==
    CASE d.decl \in {"struct", "union"} -> [n \in 1..Len(d.fields) |-> d.fields[n].ty]
      [] d.decl = "type" -> <<d.target>>
      [] OTHER -> << >>

\* the declaration of the finished output for the local entry at position i
DeclsOf(i) == SelectSeq(em.out, LAMBDA d : d.id = i)

\* C28: under SpecRef, in the finished output every reference (in a field or a
\* typedef) to a named struct, union or enum renders the identifier under which
\* the entry of that type id is declared.
C28_RefsNameDeclaration ==
    pc = "emit_done" =>
       \A k \in 1..Len(em.out) :
          LET d == em.out[k]
              refs == RefsOf(em.types[d.id])
          IN Len(RenderedRefs(d)) = Len(refs) =>
             \A n \in 1..Len(refs) :
                LET t == LocalOf(refs[n])
                IN (/\ t # 0
                    /\ em.types[t].variant \in {"Struct", "Union", "Enum"}
                    /\ em.types[t].name # None
                    /\ DeclsOf(t) # << >>) =>
                      RenderedRefs(d)[n] = Ident(DeclsOf(t)[1].name)

-----------------------------------------------------------------------------
(* C29 *)

\* C29: under SpecRef, in the finished output an anonymous struct, union or enum
\* of type id t (in the numbering of base and local entries together) is declared
\* '_anon_<kind>_<t>', and every reference to type id t (in a field or a typedef)
\* renders that name, without a base and with one.
C29_AnonNames ==
    pc = "emit_done" =>
       /\ \A k \in 1..Len(em.out) :
             LET i == em.out[k].id
             IN (em.types[i].variant \in {"Struct", "Union", "Enum"}
                 /\ em.types[i].name = None) =>
                   em.out[k].name = Proposed(em.types[i], Len(em.base.v) + i)
       /\ \A k \in 1..Len(em.out) :
             LET d == em.out[k]
                 refs == RefsOf(em.types[d.id])
             IN Len(RenderedRefs(d)) = Len(refs) =>
                \A n \in 1..Len(refs) :
                   LET t == LocalOf(refs[n])
                   IN (/\ t # 0
                       /\ em.types[t].variant \in {"Struct", "Union", "Enum"}
                       /\ em.types[t].name = None
                       /\ DeclsOf(t) # << >>) =>
                         RenderedRefs(d)[n] = Ident(DeclsOf(t)[1].name)

-----------------------------------------------------------------------------
(* C30 *)

\* C30: under SpecEntry, every Func or Variable entry yielded carries one of the
\* three declared linkages: for a Func the one that vlen numbers, no payload read;
\* for a Variable the one that its trailing word numbers; and never a value
\* outside Static, Global, Extern, whatever the raw value.
C30_LinkageDeclared ==
    \A n \in 1..Len(items) :
       (items[n].ok /\ items[n].ty.variant \in {"Func", "Variable"}) =>
          /\ items[n].ty.linkage \in {LinkageNames[k] : k \in 1..Len(LinkageNames)}
          /\ items[n].ty.variant = "Func" =>
                /\ items[n].to - items[n].from = Type_SIZE
                /\ gen.vlen < Len(LinkageNames) =>
                      items[n].ty.linkage = LinkageNames[gen.vlen + 1]
          /\ (items[n].ty.variant = "Variable"
                /\ gen.w1.hi = 0 /\ gen.w1.lo < Len(LinkageNames)) =>
                items[n].ty.linkage = LinkageNames[gen.w1.lo + 1]

====
